---- MODULE Spec2Model ----
(***************************************************************************)
(* Bounded-buffer producer/consumer programs of the repository:            *)
(*   concepts/03_condition_variables/03_producer_consumer.c  (variant cv)  *)
(*   concepts/04_semaphores/03_producer_consumer.c           (variant sem) *)
(* Each program runs two producer threads and two consumer threads over a  *)
(* circular buffer.  One step of the model is one statement of a thread.   *)
(***************************************************************************)
EXTENDS Integers, Sequences, FiniteSets, TLC

\* #define BUFFER_SIZE 5 in both programs.
BUFFER_SIZE == 5

\* Iterations of each thread's for loop. The source runs NUM_ITEMS / 2 of
\* them (10 in the cv program, 7 in the sem program); bounded here.
MaxIterations == 2

\* BUFFER_SIZE is a compile-time parameter. The capacities explored are the
\* small ones, where the buffer fills within MaxIterations, and the
\* programs' own.
MaxCapacity == 2

\* The history of a run counts the spurious returns of pthread_cond_wait in
\* 02_condvar_good.c and 04_spurious_wakeup.c up to this number; the returns
\* themselves are not limited.
MaxWakeups == 2

\* 01_race_condition.c and 02_mutex_solution.c: #define NUM_THREADS 2.
NUM_THREADS == 2

\* The programs' INCREMENTS is 1000000; the model's threads increment
\* MaxIncrements times each.
MaxIncrements == 2

\* 04_trylock.c: main creates three workers (pthread_t threads[3]), and each
\* makes five attempts (for (int i = 0; i < 5; i++)).
NUM_WORKERS == 3

ATTEMPTS == 5

\* 01_binary_semaphore.c: #define NUM_THREADS 3.
BINARY_NUM_THREADS == 3

\* 04_rate_limiter.c: #define NUM_REQUESTS 10 and #define MAX_CONCURRENT 3;
\* 02_counting_semaphore.c has the same numbers as NUM_WORKERS and
\* MAX_RESOURCES.
NUM_REQUESTS == 10

MAX_CONCURRENT == 3

\* 03_spinlock.c: main creates two workers (pthread_t t1, t2).
SPIN_THREADS == 2

Capacities == (1..MaxCapacity) \cup {BUFFER_SIZE}

Producers == {"prod1", "prod2"}
Consumers == {"cons1", "cons2"}
Threads == Producers \cup Consumers

\* main passes &id1 to prod1 and cons1 and &id2 to prod2 and cons2.
id(t) == IF t \in {"prod1", "cons1"} THEN 1 ELSE 2

VARIABLES
    variant,     \* "cv" or "sem": which of the two programs runs
    capacity,    \* the value of BUFFER_SIZE the program is built with
    buffer,      \* int buffer[BUFFER_SIZE]
    count,       \* int count            (cv)
    in,          \* int in
    out,         \* int out
    mutex,       \* pthread_mutex_t mutex (cv): "free" or the owning thread
    not_empty,   \* pthread_cond_t not_empty (cv): the threads blocked on it
    not_full,    \* pthread_cond_t not_full  (cv): the threads blocked on it
    empty,       \* sem_t empty (sem): its value
    full,        \* sem_t full  (sem): its value
    sem_mutex,   \* sem_t mutex (sem): its value
    pc,          \* each thread's position
    i,           \* each thread's loop counter
    item,        \* each thread's local variable item
    main,        \* position of main: "join" or "exit"
    writes,      \* history: the buffer writes so far, <<slot, item>> each
    reads,       \* history: the buffer reads so far, <<slot, item>> each
    signals,     \* history: per thread and condition variable, the number of
                 \* pthread_cond_signal calls the thread has made on it
    ops,         \* history (sem): the semaphore and buffer operations of the
                 \* thread's current (or, between iterations, last) iteration
    data_ready,  \* int data_ready (01_busy_wait_bad.c, 02_condvar_good.c)
    script,      \* the schedule the run is held to: who writes and when a
                 \* read happens, in order; <<>> when the run is held to none
    ready,       \* int ready (04_spurious_wakeup.c)
    cond,        \* pthread_cond_t cond (02_condvar_good.c,
                 \* 04_spurious_wakeup.c): the threads blocked on it
    wakeups,     \* history: the spurious returns of pthread_cond_wait on
                 \* cond so far, counted up to MaxWakeups
    counter,     \* int counter (01_race_condition.c, 02_mutex_solution.c)
    counter_mutex, \* pthread_mutex_t counter_mutex (02_mutex_solution.c):
                 \* "free" or "locked"
    reg,         \* per thread, the value of counter or shared_resource it has
                 \* loaded for its ++ (a register; no source name)
    lock1,       \* pthread_mutex_t lock1 (03_deadlock.c)
    lock2,       \* pthread_mutex_t lock2 (03_deadlock.c)
    resource_lock,   \* pthread_mutex_t resource_lock (04_trylock.c)
    shared_resource, \* int shared_resource (04_trylock.c)
    attempts,    \* int attempts of each worker_thread (04_trylock.c)
    successes,   \* int successes of each worker_thread (04_trylock.c)
    binary_sem,  \* sem_t binary_sem (01_binary_semaphore.c): its value
    resource_pool,   \* sem_t resource_pool (02_counting_semaphore.c): its
                     \* value
    rate_limiter,    \* sem_t rate_limiter (04_rate_limiter.c): its value
    spinlock,    \* atomic_flag spinlock (03_spinlock.c): TRUE when set
    shared_counter   \* int shared_counter (03_spinlock.c)

vars == <<variant, capacity, buffer, count, in, out, mutex, not_empty, not_full,
          empty, full, sem_mutex, pc, i, item, main, writes, reads, signals,
          ops, data_ready, script, ready, cond, wakeups, counter, counter_mutex,
          reg,
          lock1, lock2, resource_lock, shared_resource, attempts, successes,
          binary_sem, resource_pool, rate_limiter, spinlock, shared_counter>>

\* The variables that no statement of the two producer/consumer programs
\* reads or writes.
condVars == <<ready, cond, wakeups>>
counterVars == <<counter, counter_mutex, reg>>
lockVars == <<lock1, lock2>>
trylockVars == <<resource_lock, shared_resource, attempts, successes>>
semaphoreVars == <<binary_sem, resource_pool, rate_limiter>>
spinVars == <<spinlock, shared_counter>>

others == <<data_ready, script, condVars, counterVars, lockVars, trylockVars,
            semaphoreVars, spinVars>>

cvSync == <<mutex, not_empty, not_full>>
semSync == <<empty, full, sem_mutex>>
history == <<writes, reads, signals, ops>>

\* Mutant of SemProducerBody: the producer takes the mutex permit before the
\* empty permit.
SemProducerBodyMutexFirst ==
    <<"wait_mutex", "wait_empty", "store", "advance", "post_mutex", "post_full">>

\* The statements of one iteration of the sem program's producer and
\* consumer, in program order.
SemProducerBody ==
    <<"wait_empty", "wait_mutex", "store", "advance", "post_mutex", "post_full">>

SemConsumerBody ==
    <<"wait_full", "wait_mutex", "load", "advance", "post_mutex", "post_empty">>

Body(t) == IF t \in Producers THEN SemProducerBody ELSE SemConsumerBody

\* The first statement of a thread's loop body.
FirstPc(v, t) == IF v = "cv" THEN "lock" ELSE Body(t)[1]

\* The values the variables of the other programs have throughout a run of a
\* program that does not have them.
CondIdle == ready = 0 /\ cond = {} /\ wakeups = 0
CounterIdle == counter = 0 /\ counter_mutex = "free" /\ reg = <<>>
LocksIdle == lock1 = "free" /\ lock2 = "free"
TrylockIdle ==
    /\ resource_lock = "free"
    /\ shared_resource = 0
    /\ attempts = <<>>
    /\ successes = <<>>
SemaphoresIdle == binary_sem = 0 /\ resource_pool = 0 /\ rate_limiter = 0
SpinIdle == spinlock = FALSE /\ shared_counter = 0

\* Globals are zero-initialised; main initialises the synchronisation
\* objects and creates the four threads.
Start ==
    /\ variant \in {"cv", "sem"}
    /\ capacity \in Capacities
    /\ buffer = [k \in 0..(capacity - 1) |-> 0]
    /\ count = 0
    /\ in = 0
    /\ out = 0
    /\ mutex = "free"
    /\ not_empty = {}
    /\ not_full = {}
    /\ empty = IF variant = "sem" THEN capacity ELSE 0
    /\ full = 0
    /\ sem_mutex = IF variant = "sem" THEN 1 ELSE 0
    /\ pc = [t \in Threads |-> IF MaxIterations > 0 THEN FirstPc(variant, t) ELSE "done"]
    /\ i = [t \in Threads |-> 0]
    /\ item = [t \in Threads |-> 0]
    /\ main = "join"
    /\ writes = <<>>
    /\ reads = <<>>
    /\ signals = [t \in Threads |-> [c \in {"not_empty", "not_full"} |-> 0]]
    /\ ops = [t \in Threads |-> <<>>]
    /\ data_ready = 0
    /\ CondIdle
    /\ CounterIdle
    /\ LocksIdle
    /\ SemaphoresIdle
    /\ SpinIdle
    /\ TrylockIdle

\* The threads run as the scheduler lets them.
Init == Start /\ script = <<>>

----------------------------------------------------------------------------
\* Shared by both programs.

\* for (int i = 0; i < NUM_ITEMS / 2; i++): the step to the next iteration,
\* taken with the last statement of the loop body (the usleep does nothing
\* to the state).
NextIteration(t) ==
    /\ i' = [i EXCEPT ![t] = i[t] + 1]
    /\ pc' = [pc EXCEPT ![t] = IF i[t] + 1 < MaxIterations
                                THEN FirstPc(variant, t) ELSE "done"]

\* int item = id * 100 + i;
NewItem(t) == id(t) * 100 + i[t]

\* Mutant of Advance: the cursor moves on by two slots.
AdvanceByTwo(cursor) == (cursor + 2) % capacity

\* Mutant of Advance: the cursor stops at the last slot instead of wrapping.
AdvanceNoWrap(cursor) == IF cursor + 1 < capacity THEN cursor + 1 ELSE cursor

\* in = (in + 1) % BUFFER_SIZE;   out = (out + 1) % BUFFER_SIZE;
Advance(cursor) == (cursor + 1) % capacity

----------------------------------------------------------------------------
\* The condition-variable program.

\* Mutant of BufferFull: the producer leaves the last slot unused.
BufferFullEarly == count >= capacity - 1

\* Mutant of BufferFull: the comparison is off by one.
BufferFullOffByOne == count > capacity

\* while (count == BUFFER_SIZE)
BufferFull == count = capacity

\* Mutant of BufferEmpty: the test is for a negative count.
BufferEmptyNegative == count < 0

\* while (count == 0)
BufferEmpty == count = 0

\* The condition variable a thread waits on, and the one it signals.
WaitCond(t) == IF t \in Producers THEN "not_full" ELSE "not_empty"
SignalCond(t) == IF t \in Producers THEN "not_empty" ELSE "not_full"

Waiters(c) == IF c = "not_full" THEN not_full ELSE not_empty

\* Mutant of CvLock: the consumer enters its loop body without taking the
\* mutex.
CvLockMissingInConsumer(t) ==
    /\ variant = "cv"
    /\ pc[t] = "lock"
    /\ IF t \in Producers THEN mutex = "free" /\ mutex' = t ELSE mutex' = mutex
    /\ item' = [item EXCEPT ![t] = IF t \in Producers THEN NewItem(t) ELSE item[t]]
    /\ pc' = [pc EXCEPT ![t] = "test"]
    /\ UNCHANGED <<others, variant, capacity, buffer, count, in, out, not_empty, not_full,
                   semSync, i, main, history>>

\* pthread_mutex_lock(&mutex), at the top of the loop body.  The producer's
\* item = id * 100 + i precedes it and touches no shared state.
CvLock(t) ==
    /\ variant = "cv"
    /\ pc[t] = "lock"
    /\ mutex = "free"
    /\ mutex' = t
    /\ item' = [item EXCEPT ![t] = IF t \in Producers THEN NewItem(t) ELSE item[t]]
    /\ pc' = [pc EXCEPT ![t] = "test"]
    /\ UNCHANGED <<others, variant, capacity, buffer, count, in, out, not_empty, not_full,
                   semSync, i, main, history>>

\* The loop condition of the producer's while (count == BUFFER_SIZE).
CvProducerTest(t) ==
    /\ variant = "cv"
    /\ t \in Producers
    /\ pc[t] = "test"
    /\ pc' = [pc EXCEPT ![t] = IF BufferFull THEN "wait" ELSE "store"]
    /\ UNCHANGED <<others, variant, capacity, buffer, count, in, out, cvSync, semSync,
                   i, item, main, history>>

\* The loop condition of the consumer's while (count == 0).
CvConsumerTest(t) ==
    /\ variant = "cv"
    /\ t \in Consumers
    /\ pc[t] = "test"
    /\ pc' = [pc EXCEPT ![t] = IF BufferEmpty THEN "wait" ELSE "load"]
    /\ UNCHANGED <<others, variant, capacity, buffer, count, in, out, cvSync, semSync,
                   i, item, main, history>>

\* Mutant of WaitReleases: the thread keeps the mutex while it waits.
WaitKeepsMutex(t) == t

\* The owner of the mutex while a thread is suspended in pthread_cond_wait:
\* the call releases the mutex atomically with blocking the thread.
WaitReleases(t) == "free"

\* Mutant of CvWait: the thread polls. It unlocks the mutex and goes on to
\* lock it and test the condition again, as the waiter of 01_busy_wait_bad.c
\* does, without blocking on the condition variable.
CvWaitSpins(t) ==
    /\ variant = "cv"
    /\ pc[t] = "wait"
    /\ mutex' = "free"
    /\ pc' = [pc EXCEPT ![t] = "relock"]
    /\ UNCHANGED <<others, variant, capacity, buffer, count, in, out, not_empty,
                   not_full, semSync, i, item, main, writes, reads, signals, ops>>

\* pthread_cond_wait, first half: atomically release the mutex and block on
\* the condition variable.
CvWait(t) ==
    /\ variant = "cv"
    /\ pc[t] = "wait"
    /\ mutex' = WaitReleases(t)
    /\ not_full' = IF WaitCond(t) = "not_full" THEN not_full \cup {t} ELSE not_full
    /\ not_empty' = IF WaitCond(t) = "not_empty" THEN not_empty \cup {t} ELSE not_empty
    /\ pc' = [pc EXCEPT ![t] = "blocked"]
    /\ UNCHANGED <<others, variant, capacity, buffer, count, in, out, semSync,
                   i, item, main, writes, reads, signals, ops>>

\* pthread_cond_wait may return without any signal (a spurious wakeup): the
\* thread leaves the condition variable and goes on to reacquire the mutex.
CvSpuriousWakeup(t) ==
    /\ variant = "cv"
    /\ pc[t] = "blocked"
    /\ not_full' = not_full \ {t}
    /\ not_empty' = not_empty \ {t}
    /\ pc' = [pc EXCEPT ![t] = "relock"]
    /\ UNCHANGED <<others, variant, capacity, buffer, count, in, out, mutex, semSync,
                   i, item, main, writes, reads, signals, ops>>

\* Mutant of AfterWait: the wait is guarded by an if, not a while, so the
\* thread goes on without testing the condition again.
AfterWaitNoRecheck(t) == IF t \in Producers THEN "store" ELSE "load"

\* Where a thread continues when pthread_cond_wait has returned: the wait is
\* the body of a while loop, so at the loop's condition.
AfterWait(t) == "test"

\* pthread_cond_wait, second half: a woken thread reacquires the mutex
\* before pthread_cond_wait returns.
CvRelock(t) ==
    /\ variant = "cv"
    /\ pc[t] = "relock"
    /\ mutex = "free"
    /\ mutex' = t
    /\ pc' = [pc EXCEPT ![t] = AfterWait(t)]
    /\ UNCHANGED <<others, variant, capacity, buffer, count, in, out, not_empty, not_full,
                   semSync, i, item, main, history>>

\* buffer[in] = item;
CvStore(t) ==
    /\ variant = "cv"
    /\ t \in Producers
    /\ pc[t] = "store"
    /\ buffer' = [buffer EXCEPT ![in] = item[t]]
    /\ writes' = Append(writes, <<in, item[t]>>)
    /\ pc' = [pc EXCEPT ![t] = "advance"]
    /\ UNCHANGED <<others, variant, capacity, count, in, out, cvSync, semSync,
                   i, item, main, reads, signals, ops>>

\* in = (in + 1) % BUFFER_SIZE;
CvAdvanceIn(t) ==
    /\ variant = "cv"
    /\ t \in Producers
    /\ pc[t] = "advance"
    /\ in' = Advance(in)
    /\ pc' = [pc EXCEPT ![t] = "count"]
    /\ UNCHANGED <<others, variant, capacity, buffer, count, out, cvSync, semSync,
                   i, item, main, history>>

\* count++;
CvIncrement(t) ==
    /\ variant = "cv"
    /\ t \in Producers
    /\ pc[t] = "count"
    /\ count' = count + 1
    /\ pc' = [pc EXCEPT ![t] = "signal"]
    /\ UNCHANGED <<others, variant, capacity, buffer, in, out, cvSync, semSync,
                   i, item, main, history>>

\* Mutant of CvLoad: the consumer takes the newest item, the one in the
\* slot before in, as a stack would.
CvLoadNewest(t) ==
    /\ variant = "cv"
    /\ t \in Consumers
    /\ pc[t] = "load"
    /\ item' = [item EXCEPT ![t] = buffer[(in + capacity - 1) % capacity]]
    /\ reads' = Append(reads, <<(in + capacity - 1) % capacity,
                                buffer[(in + capacity - 1) % capacity]>>)
    /\ pc' = [pc EXCEPT ![t] = "advance"]
    /\ UNCHANGED <<others, variant, capacity, buffer, count, in, out, cvSync, semSync,
                   i, main, writes, signals, ops>>

\* int item = buffer[out];
CvLoad(t) ==
    /\ variant = "cv"
    /\ t \in Consumers
    /\ pc[t] = "load"
    /\ item' = [item EXCEPT ![t] = buffer[out]]
    /\ reads' = Append(reads, <<out, buffer[out]>>)
    /\ pc' = [pc EXCEPT ![t] = "advance"]
    /\ UNCHANGED <<others, variant, capacity, buffer, count, in, out, cvSync, semSync,
                   i, main, writes, signals, ops>>

\* Mutant of CvAdvanceOut: the consumer leaves out where it was.
CvAdvanceOutForgotten(t) ==
    /\ variant = "cv"
    /\ t \in Consumers
    /\ pc[t] = "advance"
    /\ pc' = [pc EXCEPT ![t] = "count"]
    /\ UNCHANGED <<others, variant, capacity, buffer, count, in, out, cvSync, semSync,
                   i, item, main, history>>

\* out = (out + 1) % BUFFER_SIZE;
CvAdvanceOut(t) ==
    /\ variant = "cv"
    /\ t \in Consumers
    /\ pc[t] = "advance"
    /\ out' = Advance(out)
    /\ pc' = [pc EXCEPT ![t] = "count"]
    /\ UNCHANGED <<others, variant, capacity, buffer, count, in, cvSync, semSync,
                   i, item, main, history>>

\* Mutant of CvDecrement: the consumer leaves count as it was.
CvDecrementForgotten(t) ==
    /\ variant = "cv"
    /\ t \in Consumers
    /\ pc[t] = "count"
    /\ pc' = [pc EXCEPT ![t] = "signal"]
    /\ UNCHANGED <<others, variant, capacity, buffer, count, in, out, cvSync, semSync,
                   i, item, main, history>>

\* count--;
CvDecrement(t) ==
    /\ variant = "cv"
    /\ t \in Consumers
    /\ pc[t] = "count"
    /\ count' = count - 1
    /\ pc' = [pc EXCEPT ![t] = "signal"]
    /\ UNCHANGED <<others, variant, capacity, buffer, in, out, cvSync, semSync,
                   i, item, main, history>>

\* Mutant of SignalWakes: the signal is lost (no thread is unblocked).
SignalWakesNone(c) == {{}}

\* Mutant of SignalWakes: pthread_cond_broadcast, every waiter is unblocked.
SignalWakesAll(c) == {Waiters(c)}

\* pthread_cond_signal(&c): the sets of threads one call may unblock. It
\* unblocks one of the threads blocked on c, and none when none is blocked.
SignalWakes(c) ==
    IF Waiters(c) = {} THEN {{}} ELSE {{w} : w \in Waiters(c)}

\* pthread_cond_signal(&not_empty) in producer, (&not_full) in consumer.
CvSignal(t) ==
    /\ variant = "cv"
    /\ pc[t] = "signal"
    /\ \E wake \in SignalWakes(SignalCond(t)) :
          /\ not_empty' = not_empty \ wake
          /\ not_full' = not_full \ wake
          /\ pc' = [u \in Threads |->
                      IF u = t THEN "unlock"
                      ELSE IF u \in wake THEN "relock" ELSE pc[u]]
    /\ signals' = [signals EXCEPT ![t][SignalCond(t)] = @ + 1]
    /\ UNCHANGED <<others, variant, capacity, buffer, count, in, out, mutex, semSync,
                   i, item, main, writes, reads, ops>>

\* pthread_mutex_unlock(&mutex); the usleep and the loop's i++ follow.
CvUnlock(t) ==
    /\ variant = "cv"
    /\ pc[t] = "unlock"
    /\ mutex' = "free"
    /\ NextIteration(t)
    /\ UNCHANGED <<others, variant, capacity, buffer, count, in, out, not_empty, not_full,
                   semSync, item, main, writes, reads, signals, ops>>

----------------------------------------------------------------------------
\* The semaphore program.

\* The place of the thread's current statement in its loop body.
Position(t) == CHOOSE k \in DOMAIN Body(t) : Body(t)[k] = pc[t]

\* Control passes to the next statement of the body, and from the last one
\* (after the usleep) to the next iteration. op is recorded in the history.
SemGoto(t, op) ==
    /\ IF Position(t) = Len(Body(t))
       THEN NextIteration(t)
       ELSE /\ pc' = [pc EXCEPT ![t] = Body(t)[Position(t) + 1]]
            /\ i' = i
    /\ ops' = [ops EXCEPT ![t] = IF Position(t) = 1 THEN <<op>> ELSE Append(@, op)]

\* Mutant of SemWaitEmpty: the producer goes on without taking an empty
\* permit (the sem_wait(&empty) is missing).
SemWaitEmptySkipped(t) ==
    /\ variant = "sem"
    /\ t \in Producers
    /\ pc[t] = "wait_empty"
    /\ item' = [item EXCEPT ![t] = NewItem(t)]
    /\ SemGoto(t, <<"wait", "empty">>)
    /\ UNCHANGED <<others, variant, capacity, buffer, count, in, out, cvSync, empty,
                   full, sem_mutex, main, writes, reads, signals>>

\* sem_wait(&empty) in producer. The item = id * 100 + i before it touches
\* no shared state.
SemWaitEmpty(t) ==
    /\ variant = "sem"
    /\ t \in Producers
    /\ pc[t] = "wait_empty"
    /\ empty > 0
    /\ empty' = empty - 1
    /\ item' = [item EXCEPT ![t] = NewItem(t)]
    /\ SemGoto(t, <<"wait", "empty">>)
    /\ UNCHANGED <<others, variant, capacity, buffer, count, in, out, cvSync, full,
                   sem_mutex, main, writes, reads, signals>>

\* sem_wait(&full) in consumer.
SemWaitFull(t) ==
    /\ variant = "sem"
    /\ t \in Consumers
    /\ pc[t] = "wait_full"
    /\ full > 0
    /\ full' = full - 1
    /\ SemGoto(t, <<"wait", "full">>)
    /\ UNCHANGED <<others, variant, capacity, buffer, count, in, out, cvSync, empty,
                   sem_mutex, item, main, writes, reads, signals>>

\* sem_wait(&mutex) in producer and consumer.
SemWaitMutex(t) ==
    /\ variant = "sem"
    /\ pc[t] = "wait_mutex"
    /\ sem_mutex > 0
    /\ sem_mutex' = sem_mutex - 1
    /\ SemGoto(t, <<"wait", "mutex">>)
    /\ UNCHANGED <<others, variant, capacity, buffer, count, in, out, cvSync, empty,
                   full, item, main, writes, reads, signals>>

\* buffer[in] = item;
SemStore(t) ==
    /\ variant = "sem"
    /\ t \in Producers
    /\ pc[t] = "store"
    /\ buffer' = [buffer EXCEPT ![in] = item[t]]
    /\ writes' = Append(writes, <<in, item[t]>>)
    /\ SemGoto(t, <<"write", "buffer">>)
    /\ UNCHANGED <<others, variant, capacity, count, in, out, cvSync, semSync,
                   item, main, reads, signals>>

\* in = (in + 1) % BUFFER_SIZE;
SemAdvanceIn(t) ==
    /\ variant = "sem"
    /\ t \in Producers
    /\ pc[t] = "advance"
    /\ in' = Advance(in)
    /\ SemGoto(t, <<"advance", "in">>)
    /\ UNCHANGED <<others, variant, capacity, buffer, count, out, cvSync, semSync,
                   item, main, writes, reads, signals>>

\* int item = buffer[out];
SemLoad(t) ==
    /\ variant = "sem"
    /\ t \in Consumers
    /\ pc[t] = "load"
    /\ item' = [item EXCEPT ![t] = buffer[out]]
    /\ reads' = Append(reads, <<out, buffer[out]>>)
    /\ SemGoto(t, <<"read", "buffer">>)
    /\ UNCHANGED <<others, variant, capacity, buffer, count, in, out, cvSync, semSync,
                   main, writes, signals>>

\* out = (out + 1) % BUFFER_SIZE;
SemAdvanceOut(t) ==
    /\ variant = "sem"
    /\ t \in Consumers
    /\ pc[t] = "advance"
    /\ out' = Advance(out)
    /\ SemGoto(t, <<"advance", "out">>)
    /\ UNCHANGED <<others, variant, capacity, buffer, count, in, cvSync, semSync,
                   item, main, writes, reads, signals>>

\* sem_post(&mutex) in producer and consumer.
SemPostMutex(t) ==
    /\ variant = "sem"
    /\ pc[t] = "post_mutex"
    /\ sem_mutex' = sem_mutex + 1
    /\ SemGoto(t, <<"post", "mutex">>)
    /\ UNCHANGED <<others, variant, capacity, buffer, count, in, out, cvSync, empty,
                   full, item, main, writes, reads, signals>>

\* sem_post(&full) in producer.
SemPostFull(t) ==
    /\ variant = "sem"
    /\ t \in Producers
    /\ pc[t] = "post_full"
    /\ full' = full + 1
    /\ SemGoto(t, <<"post", "full">>)
    /\ UNCHANGED <<others, variant, capacity, buffer, count, in, out, cvSync, empty,
                   sem_mutex, item, main, writes, reads, signals>>

\* sem_post(&empty) in consumer.
SemPostEmpty(t) ==
    /\ variant = "sem"
    /\ t \in Consumers
    /\ pc[t] = "post_empty"
    /\ empty' = empty + 1
    /\ SemGoto(t, <<"post", "empty">>)
    /\ UNCHANGED <<others, variant, capacity, buffer, count, in, out, cvSync, full,
                   sem_mutex, item, main, writes, reads, signals>>

----------------------------------------------------------------------------
\* main: the four pthread_join calls return once every thread has returned.
Join ==
    /\ variant \in {"cv", "sem"}
    /\ main = "join"
    /\ \A t \in Threads : pc[t] = "done"
    /\ main' = "exit"
    /\ UNCHANGED <<others, variant, capacity, buffer, count, in, out, cvSync, semSync,
                   pc, i, item, history>>

\* A step of the cv program that thread t takes itself: a statement of its
\* code. (A spurious wakeup is not one: it happens to the thread.)
CvStep(t) ==
    \/ CvLock(t)
    \/ CvProducerTest(t)
    \/ CvConsumerTest(t)
    \/ CvWait(t)
    \/ CvRelock(t)
    \/ CvStore(t)
    \/ CvAdvanceIn(t)
    \/ CvIncrement(t)
    \/ CvLoad(t)
    \/ CvAdvanceOut(t)
    \/ CvDecrement(t)
    \/ CvSignal(t)
    \/ CvUnlock(t)

\* A step of the sem program that thread t takes.
SemStep(t) ==
    \/ SemWaitEmpty(t)
    \/ SemWaitFull(t)
    \/ SemWaitMutex(t)
    \/ SemStore(t)
    \/ SemAdvanceIn(t)
    \/ SemLoad(t)
    \/ SemAdvanceOut(t)
    \/ SemPostMutex(t)
    \/ SemPostFull(t)
    \/ SemPostEmpty(t)

Step(t) == CvStep(t) \/ SemStep(t)

Next ==
    \/ \E t \in Threads : Step(t)
    \/ \E t \in Threads : CvSpuriousWakeup(t)
    \/ Join

Spec == Init /\ [][Next]_vars

\* Fair scheduling: a thread that can again and again take a step of its code
\* (also one that needs the mutex or a permit other threads keep taking and
\* giving back) eventually takes it, and main returns from pthread_join.
\* Nothing makes a spurious wakeup happen.
Fairness == (\A t \in Threads : SF_vars(Step(t))) /\ WF_vars(Join)

FairSpec == Spec /\ Fairness

----------------------------------------------------------------------------
\* Runs held to a schedule. A schedule says, event by event, which producer
\* writes the buffer next or that the next event is a read. The scheduler of
\* the operating system is free to run the threads in any order; holding a
\* run to a schedule picks some of the runs the program has.

\* The schedules that end with every item written and read and never have
\* more than c items written and not read, continuing from a items of prod1
\* and b items of prod2 written and r items read.
RECURSIVE Schedules(_, _, _, _)
Schedules(c, a, b, r) ==
    IF a = MaxIterations /\ b = MaxIterations /\ r = 2 * MaxIterations
    THEN {<<>>}
    ELSE (IF a < MaxIterations /\ a + b - r < c
          THEN {<<"prod1">> \o s : s \in Schedules(c, a + 1, b, r)} ELSE {})
         \cup
         (IF b < MaxIterations /\ a + b - r < c
          THEN {<<"prod2">> \o s : s \in Schedules(c, a, b + 1, r)} ELSE {})
         \cup
         (IF a + b - r > 0
          THEN {<<"read">> \o s : s \in Schedules(c, a, b, r + 1)} ELSE {})

\* The run is held to one of the schedules, or to none.
ScheduledInit == Start /\ script \in Schedules(capacity, 0, 0, 0) \cup {<<>>}

\* The buffer writes and reads so far.
Events == Len(writes) + Len(reads)

\* The next event of the schedule is thread t's: t is the producer named, or
\* a consumer and the event is a read.
Due(t) ==
    /\ Events < Len(script)
    /\ script[Events + 1] = (IF t \in Producers THEN t ELSE "read")

\* The thread is inside an iteration of its loop and has not yet written or
\* read the buffer in it.
Pending(t) ==
    pc[t] \notin {FirstPc(variant, t), "advance", "count", "signal", "unlock",
                  "post_mutex", "post_full", "post_empty", "done"}

\* Thread t executes the first statement of an iteration in this step.
Starts(t) == pc[t] = FirstPc(variant, t) /\ pc'[t] # pc[t]

\* The scheduler lets a thread begin an iteration only when the next event
\* of the schedule is that thread's and no other thread is on its way to an
\* event.
Follows ==
    script # <<>> =>
        \A t \in Threads :
            Starts(t) => Due(t) /\ \A u \in Threads : ~Pending(u)

ScheduledNext ==
    \/ \E t \in Threads : Step(t) /\ Follows
    \/ \E t \in Threads : CvSpuriousWakeup(t)
    \/ Join

\* A thread the schedule lets run, and that stays able to run, runs.
ScheduledFairness ==
    (\A t \in Threads : WF_vars(Step(t) /\ Follows)) /\ WF_vars(Join)

ScheduledSpec == ScheduledInit /\ [][ScheduledNext]_vars /\ ScheduledFairness

----------------------------------------------------------------------------
\* concepts/03_condition_variables/01_busy_wait_bad.c (variant busy): a
\* waiter that polls data_ready, and the thread that sets it.

BusyThreads == {"waiter_thread", "producer_thread"}

\* The variables of the producer/consumer programs, which this program does
\* not have.
queueVars == <<capacity, buffer, count, in, out, not_empty, not_full, semSync,
               i, item, writes, reads, signals, ops, script,
               condVars, counterVars, lockVars, trylockVars, semaphoreVars,
               spinVars>>

\* int data_ready = 0; the mutex is statically initialised; main creates the
\* two threads.
BusyInit ==
    /\ variant = "busy"
    /\ data_ready = 0
    /\ mutex = "free"
    /\ pc = [t \in BusyThreads |-> "lock"]
    /\ main = "join"
    /\ capacity = BUFFER_SIZE
    /\ buffer = [k \in 0..(capacity - 1) |-> 0]
    /\ count = 0
    /\ in = 0
    /\ out = 0
    /\ not_empty = {}
    /\ not_full = {}
    /\ empty = 0
    /\ full = 0
    /\ sem_mutex = 0
    /\ i = [t \in BusyThreads |-> 0]
    /\ item = [t \in BusyThreads |-> 0]
    /\ writes = <<>>
    /\ reads = <<>>
    /\ signals = [t \in BusyThreads |-> [c \in {"not_empty", "not_full"} |-> 0]]
    /\ ops = [t \in BusyThreads |-> <<>>]
    /\ script = <<>>
    /\ CondIdle
    /\ CounterIdle
    /\ LocksIdle
    /\ SemaphoresIdle
    /\ SpinIdle
    /\ TrylockIdle

\* pthread_mutex_lock(&mutex): before the waiter's loop (to = "test"), at
\* the end of its loop body (to = "test"), in producer_thread (to = "set").
BusyLock(t, from, to) ==
    /\ variant = "busy"
    /\ pc[t] = from
    /\ mutex = "free"
    /\ mutex' = t
    /\ pc' = [pc EXCEPT ![t] = to]
    /\ UNCHANGED <<queueVars, variant, data_ready, main>>

\* pthread_mutex_unlock(&mutex): in the waiter's loop body (to =
\* "spin_lock"), after its loop and in producer_thread (to = "done").
BusyUnlock(t, from, to) ==
    /\ variant = "busy"
    /\ pc[t] = from
    /\ mutex' = "free"
    /\ pc' = [pc EXCEPT ![t] = to]
    /\ UNCHANGED <<queueVars, variant, data_ready, main>>

\* while (!data_ready)
WaiterTest ==
    /\ variant = "busy"
    /\ pc["waiter_thread"] = "test"
    /\ pc' = [pc EXCEPT !["waiter_thread"] =
                 IF data_ready = 0 THEN "spin_unlock" ELSE "unlock"]
    /\ UNCHANGED <<queueVars, variant, data_ready, mutex, main>>

\* The statements of waiter_thread.
WaiterStep ==
    \/ BusyLock("waiter_thread", "lock", "test")
    \/ WaiterTest
    \/ BusyUnlock("waiter_thread", "spin_unlock", "spin_lock")
    \/ BusyLock("waiter_thread", "spin_lock", "test")
    \/ BusyUnlock("waiter_thread", "unlock", "done")

\* data_ready = 1;
SetDataReady ==
    /\ variant = "busy"
    /\ pc["producer_thread"] = "set"
    /\ data_ready' = 1
    /\ pc' = [pc EXCEPT !["producer_thread"] = "unlock"]
    /\ UNCHANGED <<queueVars, variant, mutex, main>>

\* The statements of producer_thread (its sleep(5) changes no state).
SetterStep ==
    \/ BusyLock("producer_thread", "lock", "set")
    \/ SetDataReady
    \/ BusyUnlock("producer_thread", "unlock", "done")

\* main: pthread_join(waiter), pthread_join(producer).
BusyJoin ==
    /\ variant = "busy"
    /\ main = "join"
    /\ \A t \in BusyThreads : pc[t] = "done"
    /\ main' = "exit"
    /\ UNCHANGED <<queueVars, variant, data_ready, mutex, pc>>

BusyNext == WaiterStep \/ SetterStep \/ BusyJoin

\* The polling program side by side with the two producer/consumer
\* programs.
BusyWaitSpec == (Init \/ BusyInit) /\ [][Next \/ BusyNext]_vars

----------------------------------------------------------------------------
\* 02_condvar_good.c (variant "good") and 04_spurious_wakeup.c (variant
\* "spurious"): one waiter blocks on cond until a flag is set.  The flag is
\* data_ready in 02_condvar_good.c and ready in 04_spurious_wakeup.c; the
\* thread that sets it is producer_thread there and main here.

\* The variables of the bounded buffer, which the small programs of the
\* other chapters do not have.
bufferVars == <<capacity, buffer, count, in, out, not_empty, not_full,
                semSync, item, writes, reads, signals, ops, script>>

\* The bounded-buffer variables at rest, for a program whose threads are T.
NoBuffer(T) ==
    /\ capacity = 1
    /\ buffer = [k \in 0..0 |-> 0]
    /\ count = 0
    /\ in = 0
    /\ out = 0
    /\ not_empty = {}
    /\ not_full = {}
    /\ empty = 0
    /\ full = 0
    /\ sem_mutex = 0
    /\ item = [t \in T |-> 0]
    /\ writes = <<>>
    /\ reads = <<>>
    /\ signals = [t \in T |-> [c \in {"not_empty", "not_full"} |-> 0]]
    /\ ops = [t \in T |-> <<>>]
    /\ script = <<>>

\* What the two programs leave alone.
condFrame == <<bufferVars, i, counterVars, lockVars, trylockVars,
               semaphoreVars, spinVars>>

\* The waiter functions: waiter_thread of 02_condvar_good.c, waiter_correct
\* and waiter_wrong of 04_spurious_wakeup.c.
CondWaiters == {"waiter_thread", "waiter_correct", "waiter_wrong"}

\* The thread that sets the flag and signals.
Signaller == IF variant = "good" THEN "producer_thread" ELSE "main"

\* The waiter of this run.
Waiter == CHOOSE w \in CondWaiters : w \in DOMAIN pc

\* The flag the waiter waits for.
Flag == IF variant = "good" THEN data_ready ELSE ready

\* main is about to create its threads.  main of 04_spurious_wakeup.c
\* starts waiter_correct; waiter_wrong, which the file defines and main does
\* not start, is run here by the same main in its place.  There main is the
\* signaller and has its position in pc.
CondInit ==
    \E w \in CondWaiters :
        /\ variant = IF w = "waiter_thread" THEN "good" ELSE "spurious"
        /\ pc = [t \in {w, Signaller} |->
                     IF t = "main" THEN "create" ELSE "unborn"]
        /\ main = IF w = "waiter_thread" THEN "create_waiter" ELSE "signal"
        /\ mutex = "free"
        /\ data_ready = 0
        /\ CondIdle
        /\ i = [t \in {w, Signaller} |-> 0]
        /\ NoBuffer({w, Signaller})
        /\ CounterIdle
        /\ LocksIdle
        /\ SemaphoresIdle
        /\ SpinIdle
        /\ TrylockIdle

\* main of 02_condvar_good.c: pthread_create(&waiter, ...), then
\* pthread_create(&producer, ...).
GoodCreate ==
    /\ variant = "good"
    /\ \/ /\ main = "create_waiter"
          /\ pc' = [pc EXCEPT !["waiter_thread"] = "lock"]
          /\ main' = "create_producer"
       \/ /\ main = "create_producer"
          /\ pc' = [pc EXCEPT !["producer_thread"] = "sleep"]
          /\ main' = "join"
    /\ UNCHANGED <<condFrame, variant, data_ready, condVars, mutex>>

\* main of 04_spurious_wakeup.c: pthread_create(&thread, ...).
SpuriousCreate ==
    /\ variant = "spurious"
    /\ pc["main"] = "create"
    /\ pc' = [pc EXCEPT ![Waiter] = "lock", !["main"] = "sleep"]
    /\ UNCHANGED <<condFrame, variant, data_ready, condVars, mutex, main>>

\* sleep(2) before the signaller locks the mutex: it delays the signaller
\* and orders nothing.
CondSleep(t) ==
    /\ variant \in {"good", "spurious"}
    /\ pc[t] = "sleep"
    /\ pc' = [pc EXCEPT ![t] = "lock"]
    /\ UNCHANGED <<condFrame, variant, data_ready, condVars, mutex, main>>

\* pthread_mutex_lock(&mutex) at the head of the waiter and of the
\* signaller.
CondLock(t) ==
    /\ variant \in {"good", "spurious"}
    /\ pc[t] = "lock"
    /\ mutex = "free"
    /\ mutex' = t
    /\ pc' = [pc EXCEPT ![t] = IF t = Signaller THEN "set" ELSE "test"]
    /\ UNCHANGED <<condFrame, variant, data_ready, condVars, main>>

\* Where the waiter goes once the flag is set: waiter_thread unlocks and
\* then processes, the waiters of 04_spurious_wakeup.c process under the
\* lock.
AfterLoop == IF variant = "good" THEN "unlock" ELSE "process"

\* while (!data_ready), while (!ready), and the if (!ready) of waiter_wrong.
CondTest(w) ==
    /\ variant \in {"good", "spurious"}
    /\ pc[w] = "test"
    /\ pc' = [pc EXCEPT ![w] = IF Flag = 0 THEN "wait" ELSE AfterLoop]
    /\ UNCHANGED <<condFrame, variant, data_ready, condVars, mutex, main>>

\* pthread_cond_wait(&cond, &mutex), first half: release the mutex and
\* block.
CondWait(w) ==
    /\ variant \in {"good", "spurious"}
    /\ pc[w] = "wait"
    /\ mutex' = "free"
    /\ cond' = cond \cup {w}
    /\ pc' = [pc EXCEPT ![w] = "blocked"]
    /\ UNCHANGED <<condFrame, variant, data_ready, ready, wakeups, main>>

\* pthread_cond_wait may return without any signal.
CondSpuriousWakeup(w) ==
    /\ variant \in {"good", "spurious"}
    /\ pc[w] = "blocked"
    /\ w \in cond
    /\ cond' = cond \ {w}
    /\ wakeups' = IF wakeups < MaxWakeups THEN wakeups + 1 ELSE wakeups
    /\ pc' = [pc EXCEPT ![w] = "relock"]
    /\ UNCHANGED <<condFrame, variant, data_ready, ready, mutex, main>>

\* The statement after pthread_cond_wait: the loop test again in the while
\* waiters, the processing step in waiter_wrong, whose wait is inside an if.
AfterCondWaitNeverRechecks(w) == AfterLoop

AfterCondWaitAlwaysRechecks(w) == "test"

AfterCondWait(w) == IF w = "waiter_wrong" THEN "process" ELSE "test"

\* pthread_cond_wait, second half: take the mutex again and return.
CondRelock(w) ==
    /\ variant \in {"good", "spurious"}
    /\ pc[w] = "relock"
    /\ mutex = "free"
    /\ mutex' = w
    /\ pc' = [pc EXCEPT ![w] = AfterCondWait(w)]
    /\ UNCHANGED <<condFrame, variant, data_ready, condVars, main>>

\* The processing step: printf("... Processing ...").
CondProcess(w) ==
    /\ variant \in {"good", "spurious"}
    /\ pc[w] = "process"
    /\ pc' = [pc EXCEPT ![w] = IF variant = "good" THEN "done" ELSE "unlock"]
    /\ UNCHANGED <<condFrame, variant, data_ready, condVars, mutex, main>>

\* pthread_mutex_unlock(&mutex).  After it waiter_thread processes, the
\* other waiters and producer_thread return, and main goes on to
\* pthread_join.
CondUnlock(t) ==
    /\ variant \in {"good", "spurious"}
    /\ pc[t] = "unlock"
    /\ mutex' = "free"
    /\ pc' = [pc EXCEPT ![t] = IF t = "waiter_thread" THEN "process"
                               ELSE "done"]
    /\ main' = IF t = "main" THEN "join" ELSE main
    /\ UNCHANGED <<condFrame, variant, data_ready, condVars>>

\* data_ready = 1; ready = 1;
CondSet(t) ==
    /\ variant \in {"good", "spurious"}
    /\ pc[t] = "set"
    /\ data_ready' = IF variant = "good" THEN 1 ELSE data_ready
    /\ ready' = IF variant = "good" THEN ready ELSE 1
    /\ pc' = [pc EXCEPT ![t] = "signal"]
    /\ UNCHANGED <<condFrame, variant, cond, wakeups, mutex, main>>

CondSignalLost(t) ==
    /\ variant \in {"good", "spurious"}
    /\ pc[t] = "signal"
    /\ pc' = [pc EXCEPT ![t] = "unlock"]
    /\ UNCHANGED <<condFrame, variant, data_ready, condVars, mutex, main>>

\* pthread_cond_signal(&cond): wakes the blocked waiter, if there is one.
CondSignal(t) ==
    /\ variant \in {"good", "spurious"}
    /\ pc[t] = "signal"
    /\ cond' = {}
    /\ pc' = [u \in DOMAIN pc |-> IF u = t THEN "unlock"
                                  ELSE IF u \in cond THEN "relock"
                                  ELSE pc[u]]
    /\ UNCHANGED <<condFrame, variant, data_ready, ready, wakeups, mutex,
                   main>>

\* The statements of the waiter.
CondWaiterStep ==
    /\ variant \in {"good", "spurious"}
    /\ \/ CondLock(Waiter)
       \/ CondTest(Waiter)
       \/ CondWait(Waiter)
       \/ CondRelock(Waiter)
       \/ CondProcess(Waiter)
       \/ CondUnlock(Waiter)

\* The statements of producer_thread, and of main of 04_spurious_wakeup.c
\* up to its pthread_join.
CondSignallerStep ==
    /\ variant \in {"good", "spurious"}
    /\ \/ SpuriousCreate
       \/ CondSleep(Signaller)
       \/ CondLock(Signaller)
       \/ CondSet(Signaller)
       \/ CondSignal(Signaller)
       \/ CondUnlock(Signaller)

\* main: pthread_join of the threads it created.
CondJoin ==
    /\ variant \in {"good", "spurious"}
    /\ main = "join"
    /\ \A t \in DOMAIN pc : pc[t] = "done"
    /\ main' = "exit"
    /\ UNCHANGED <<condFrame, variant, data_ready, condVars, mutex, pc>>

CondNext ==
    \/ GoodCreate
    \/ CondWaiterStep
    \/ CondSignallerStep
    \/ (variant \in {"good", "spurious"} /\ CondSpuriousWakeup(Waiter))
    \/ CondJoin

\* The programs of the chapter that wait for a flag: the two above and the
\* polling waiter of 01_busy_wait_bad.c.
CondSpec == (CondInit \/ BusyInit) /\ [][CondNext \/ BusyNext]_vars

\* Every thread that can take a step eventually takes one; a spurious
\* return of pthread_cond_wait may happen and need not.
CondFairness ==
    /\ SF_vars(CondWaiterStep)
    /\ SF_vars(CondSignallerStep)
    /\ WF_vars(GoodCreate)
    /\ WF_vars(CondJoin)

CondFairSpec == CondSpec /\ CondFairness

----------------------------------------------------------------------------
\* The programs of 02_mutex.  01_race_condition.c (variant "race") and
\* 02_mutex_solution.c (variant "solution"): NUM_THREADS threads increment
\* counter, INCREMENTS times each; MaxIncrements stands for INCREMENTS.

CounterThreads == 0..(NUM_THREADS - 1)

\* What the two programs leave alone.
counterFrame == <<bufferVars, mutex, data_ready, condVars, lockVars,
                  trylockVars, semaphoreVars, spinVars>>

\* The variables of the other chapters at rest, for a program whose threads
\* are T.
NoQueueNoCond(T) ==
    /\ NoBuffer(T)
    /\ mutex = "free"
    /\ data_ready = 0
    /\ CondIdle

\* main has created the threads and waits in pthread_join.
CounterInit ==
    /\ variant \in {"race", "solution"}
    /\ pc = [t \in CounterThreads |-> "test"]
    /\ i = [t \in CounterThreads |-> 0]
    /\ reg = [t \in CounterThreads |-> 0]
    /\ counter = 0
    /\ counter_mutex = "free"
    /\ main = "join"
    /\ NoQueueNoCond(CounterThreads)
    /\ LocksIdle
    /\ SemaphoresIdle
    /\ SpinIdle
    /\ TrylockIdle

\* The iterations thread t has still to make: i < INCREMENTS.
RemainingOneMore(t) == MaxIncrements + 1 - i[t]

Remaining(t) == MaxIncrements - i[t]

\* for (i = 0; i < INCREMENTS; i++)
CounterTest(t) ==
    /\ variant \in {"race", "solution"}
    /\ pc[t] = "test"
    /\ pc' = [pc EXCEPT ![t] = IF Remaining(t) <= 0 THEN "done"
                               ELSE IF variant = "solution" THEN "lock"
                               ELSE "read"]
    /\ UNCHANGED <<counterFrame, variant, counterVars, i, main>>

SolutionLockNotExclusive(t) ==
    /\ variant = "solution"
    /\ pc[t] = "lock"
    /\ counter_mutex' = "locked"
    /\ pc' = [pc EXCEPT ![t] = "read"]
    /\ UNCHANGED <<counterFrame, variant, counter, reg, i, main>>

\* pthread_mutex_lock(&counter_mutex), which does not fail on this mutex.
SolutionLock(t) ==
    /\ variant = "solution"
    /\ pc[t] = "lock"
    /\ counter_mutex = "free"
    /\ counter_mutex' = "locked"
    /\ pc' = [pc EXCEPT ![t] = "read"]
    /\ UNCHANGED <<counterFrame, variant, counter, reg, i, main>>

\* counter++, first part: read counter.
CounterRead(t) ==
    /\ variant \in {"race", "solution"}
    /\ pc[t] = "read"
    /\ reg' = [reg EXCEPT ![t] = counter]
    /\ pc' = [pc EXCEPT ![t] = "write"]
    /\ UNCHANGED <<counterFrame, variant, counter, counter_mutex, i, main>>

\* The increments a thread may make between a read of counter and the write
\* back.  In 02_mutex_solution.c it is one.  The unsynchronised accesses of
\* 01_race_condition.c are a data race, and a build may keep counter in a
\* register over any number of iterations of the loop before it stores it.
Batch(t) == IF variant = "race" THEN 1..Remaining(t) ELSE {1}

\* counter++, second part: add and write back; then i++.
CounterWrite(t) ==
    /\ variant \in {"race", "solution"}
    /\ pc[t] = "write"
    /\ \E k \in Batch(t) :
           /\ counter' = reg[t] + k
           /\ i' = [i EXCEPT ![t] = i[t] + k]
    /\ pc' = [pc EXCEPT ![t] = IF variant = "solution" THEN "unlock"
                               ELSE "test"]
    /\ UNCHANGED <<counterFrame, variant, counter_mutex, reg, main>>

\* pthread_mutex_unlock(&counter_mutex)
SolutionUnlock(t) ==
    /\ variant = "solution"
    /\ pc[t] = "unlock"
    /\ counter_mutex' = "free"
    /\ pc' = [pc EXCEPT ![t] = "test"]
    /\ UNCHANGED <<counterFrame, variant, counter, reg, i, main>>

\* The statements of increment_counter.
CounterStep(t) ==
    \/ CounterTest(t)
    \/ SolutionLock(t)
    \/ CounterRead(t)
    \/ CounterWrite(t)
    \/ SolutionUnlock(t)

\* main: pthread_join(threads[i], NULL) for every thread.
CounterJoin ==
    /\ variant \in {"race", "solution"}
    /\ main = "join"
    /\ \A t \in CounterThreads : pc[t] = "done"
    /\ main' = "exit"
    /\ UNCHANGED <<counterFrame, variant, counterVars, i, pc>>

CounterNext == (\E t \in CounterThreads : CounterStep(t)) \/ CounterJoin

----------------------------------------------------------------------------
\* 03_deadlock.c (variant "deadlock"): thread1_func locks lock1 then lock2,
\* thread2_func locks lock2 then lock1.

DeadlockThreads == {"thread1_func", "thread2_func"}

\* The lock a thread takes first, and the one it takes second.
FirstLock(t) == IF t = "thread1_func" THEN "lock1" ELSE "lock2"

SecondLock(t) == IF t = "thread1_func" THEN "lock2" ELSE "lock1"

\* The owner of the named lock, or "free".
Owner(l) == IF l = "lock1" THEN lock1 ELSE lock2

\* The named lock gets owner o.
SetOwner(l, o) ==
    /\ lock1' = IF l = "lock1" THEN o ELSE lock1
    /\ lock2' = IF l = "lock1" THEN lock2 ELSE o

\* What the program leaves alone.
deadlockFrame == <<bufferVars, mutex, data_ready, condVars, counterVars,
                   trylockVars, semaphoreVars, spinVars, i>>

\* main is about to create t1.
DeadlockInit ==
    /\ variant = "deadlock"
    /\ pc = [t \in DeadlockThreads |-> "unborn"]
    /\ main = "create_t1"
    /\ LocksIdle
    /\ SemaphoresIdle
    /\ SpinIdle
    /\ i = [t \in DeadlockThreads |-> 0]
    /\ NoQueueNoCond(DeadlockThreads)
    /\ CounterIdle
    /\ TrylockIdle

\* main: pthread_create(&t1, ...), then pthread_create(&t2, ...).
DeadlockCreate ==
    /\ variant = "deadlock"
    /\ \/ /\ main = "create_t1"
          /\ pc' = [pc EXCEPT !["thread1_func"] = "lock_first"]
          /\ main' = "create_t2"
       \/ /\ main = "create_t2"
          /\ pc' = [pc EXCEPT !["thread2_func"] = "lock_first"]
          /\ main' = "join"
    /\ UNCHANGED <<deadlockFrame, variant, lockVars>>

\* pthread_mutex_lock on the thread's first lock (from = "lock_first", to =
\* "sleep") and on its second (from = "lock_second", to = "unlock_second").
DeadlockLock(t, l, from, to) ==
    /\ variant = "deadlock"
    /\ pc[t] = from
    /\ Owner(l) = "free"
    /\ SetOwner(l, t)
    /\ pc' = [pc EXCEPT ![t] = to]
    /\ UNCHANGED <<deadlockFrame, variant, main>>

\* sleep(1): it gives the other thread time and orders nothing.
DeadlockSleep(t) ==
    /\ variant = "deadlock"
    /\ pc[t] = "sleep"
    /\ pc' = [pc EXCEPT ![t] = "lock_second"]
    /\ UNCHANGED <<deadlockFrame, variant, lockVars, main>>

\* pthread_mutex_unlock on the second lock (to = "unlock_first"), then on
\* the first (to = "done").
DeadlockUnlock(t, l, from, to) ==
    /\ variant = "deadlock"
    /\ pc[t] = from
    /\ SetOwner(l, "free")
    /\ pc' = [pc EXCEPT ![t] = to]
    /\ UNCHANGED <<deadlockFrame, variant, main>>

\* The statements of thread1_func and thread2_func.
DeadlockStep(t) ==
    \/ DeadlockLock(t, FirstLock(t), "lock_first", "sleep")
    \/ DeadlockSleep(t)
    \/ DeadlockLock(t, SecondLock(t), "lock_second", "unlock_second")
    \/ DeadlockUnlock(t, SecondLock(t), "unlock_second", "unlock_first")
    \/ DeadlockUnlock(t, FirstLock(t), "unlock_first", "done")

\* main: pthread_join(t1, NULL); pthread_join(t2, NULL);
DeadlockJoin ==
    /\ variant = "deadlock"
    /\ main = "join"
    /\ \A t \in DeadlockThreads : pc[t] = "done"
    /\ main' = "exit"
    /\ UNCHANGED <<deadlockFrame, variant, lockVars, pc>>

DeadlockNext ==
    \/ DeadlockCreate
    \/ (\E t \in DeadlockThreads : DeadlockStep(t))
    \/ DeadlockJoin

\* The three programs of the chapter that block on a mutex.
MutexSpec ==
    (CounterInit \/ DeadlockInit) /\ [][CounterNext \/ DeadlockNext]_vars

----------------------------------------------------------------------------
\* 04_trylock.c: three workers try the lock ATTEMPTS times each and
\* increment shared_resource when they get it.

\* The ids main hands to the workers: int ids[3] = {1, 2, 3}.
Workers == 1..NUM_WORKERS

\* What the program leaves alone.
trylockFrame == <<bufferVars, mutex, data_ready, condVars, counter,
                  counter_mutex, lockVars, semaphoreVars, spinVars>>

\* main has created the workers and waits in pthread_join.
TrylockInit ==
    /\ variant = "trylock"
    /\ pc = [w \in Workers |-> "test"]
    /\ i = [w \in Workers |-> 0]
    /\ attempts = [w \in Workers |-> 0]
    /\ successes = [w \in Workers |-> 0]
    /\ reg = [w \in Workers |-> 0]
    /\ resource_lock = "free"
    /\ shared_resource = 0
    /\ main = "join"
    /\ counter = 0
    /\ counter_mutex = "free"
    /\ NoQueueNoCond(Workers)
    /\ LocksIdle
    /\ SemaphoresIdle
    /\ SpinIdle

\* The end of an iteration of the worker's loop and the head of the next:
\* i++, then i < 5, then attempts++.  LoopsAgain is the test, AfterBody the
\* statement the worker is at next.
LoopsAgain(w) == i[w] + 1 < ATTEMPTS

AfterBody(w) == IF LoopsAgain(w) THEN "trylock" ELSE "done"

NextIterationOf(w) ==
    /\ i' = [i EXCEPT ![w] = i[w] + 1]
    /\ attempts' = [attempts EXCEPT ![w] =
                        IF LoopsAgain(w) THEN attempts[w] + 1 ELSE attempts[w]]
    /\ pc' = [pc EXCEPT ![w] = AfterBody(w)]

\* The head of the loop when the worker enters it:
\* for (int i = 0; i < 5; i++) { attempts++;
TrylockTest(w) ==
    /\ variant = "trylock"
    /\ pc[w] = "test"
    /\ IF i[w] < ATTEMPTS
           THEN /\ attempts' = [attempts EXCEPT ![w] = attempts[w] + 1]
                /\ pc' = [pc EXCEPT ![w] = "trylock"]
           ELSE /\ pc' = [pc EXCEPT ![w] = "done"]
                /\ UNCHANGED attempts
    /\ UNCHANGED <<trylockFrame, variant, resource_lock, shared_resource,
                   successes, reg, i, main>>

\* pthread_mutex_trylock(&resource_lock): 0 and the lock when it is free,
\* EBUSY when it is held; after EBUSY the worker prints, sleeps and goes to
\* its next iteration (i++).
TrylockAlwaysSucceeds(w) ==
    /\ variant = "trylock"
    /\ pc[w] = "trylock"
    /\ resource_lock' = "locked"
    /\ pc' = [pc EXCEPT ![w] = "read"]
    /\ UNCHANGED <<trylockFrame, variant, shared_resource, attempts,
                   successes, reg, i, main>>

TrylockBlocks(w) ==
    /\ variant = "trylock"
    /\ pc[w] = "trylock"
    /\ resource_lock = "free"
    /\ resource_lock' = "locked"
    /\ pc' = [pc EXCEPT ![w] = "read"]
    /\ UNCHANGED <<trylockFrame, variant, shared_resource, attempts,
                   successes, reg, i, main>>

Trylock(w) ==
    /\ variant = "trylock"
    /\ pc[w] = "trylock"
    /\ IF resource_lock = "free"
           THEN /\ resource_lock' = "locked"
                /\ pc' = [pc EXCEPT ![w] = "read"]
                /\ UNCHANGED i
                /\ UNCHANGED attempts
           ELSE /\ NextIterationOf(w)
                /\ UNCHANGED resource_lock
    /\ UNCHANGED <<trylockFrame, variant, shared_resource, successes, reg,
                   main>>

\* shared_resource++, first part: read shared_resource.
TrylockRead(w) ==
    /\ variant = "trylock"
    /\ pc[w] = "read"
    /\ reg' = [reg EXCEPT ![w] = shared_resource]
    /\ pc' = [pc EXCEPT ![w] = "write"]
    /\ UNCHANGED <<trylockFrame, variant, resource_lock, shared_resource,
                   attempts, successes, i, main>>

\* shared_resource++, second part: add and write back; the loaded value is
\* not used again (the sleep(1) after it changes no state).
TrylockWrite(w) ==
    /\ variant = "trylock"
    /\ pc[w] = "write"
    /\ shared_resource' = reg[w] + 1
    /\ reg' = [reg EXCEPT ![w] = 0]
    /\ pc' = [pc EXCEPT ![w] = "unlock"]
    /\ UNCHANGED <<trylockFrame, variant, resource_lock, attempts, successes,
                   i, main>>

\* pthread_mutex_unlock(&resource_lock); successes++; and on to the next
\* iteration (i++).
TrylockUnlock(w) ==
    /\ variant = "trylock"
    /\ pc[w] = "unlock"
    /\ resource_lock' = "free"
    /\ successes' = [successes EXCEPT ![w] = successes[w] + 1]
    /\ NextIterationOf(w)
    /\ UNCHANGED <<trylockFrame, variant, shared_resource, reg, main>>

\* The statements of worker_thread.
WorkerStep(w) ==
    \/ TrylockTest(w)
    \/ Trylock(w)
    \/ TrylockRead(w)
    \/ TrylockWrite(w)
    \/ TrylockUnlock(w)

\* main: pthread_join(threads[i], NULL) for every worker.
TrylockJoin ==
    /\ variant = "trylock"
    /\ main = "join"
    /\ \A w \in Workers : pc[w] = "done"
    /\ main' = "exit"
    /\ UNCHANGED <<trylockFrame, variant, trylockVars, reg, i, pc>>

TrylockNext == (\E w \in Workers : WorkerStep(w)) \/ TrylockJoin

TrylockSpec == TrylockInit /\ [][TrylockNext]_vars

\* A worker that can take a step eventually takes one.
TrylockFairness ==
    /\ \A w \in Workers : WF_vars(WorkerStep(w))
    /\ WF_vars(TrylockJoin)

TrylockFairSpec == TrylockSpec /\ TrylockFairness

----------------------------------------------------------------------------
\* The programs of 04_semaphores besides the producer/consumer program.
\* 01_binary_semaphore.c (variant "binary"): three threads increment
\* counter, INCREMENTS times each, under a semaphore of initial value 1;
\* MaxIncrements stands for INCREMENTS.

\* int ids[NUM_THREADS] = {1, 2, 3}, with this file's NUM_THREADS.
BinaryThreads == 1..BINARY_NUM_THREADS

\* What the program leaves alone.
binaryFrame == <<bufferVars, mutex, data_ready, condVars, counter_mutex,
                 lockVars, trylockVars, resource_pool, rate_limiter, spinVars>>

\* main has called sem_init(&binary_sem, 0, 1), created the threads and
\* waits in pthread_join.
BinaryInit ==
    /\ variant = "binary"
    /\ pc = [t \in BinaryThreads |-> "test"]
    /\ i = [t \in BinaryThreads |-> 0]
    /\ reg = [t \in BinaryThreads |-> 0]
    /\ counter = 0
    /\ counter_mutex = "free"
    /\ binary_sem = 1
    /\ resource_pool = 0
    /\ rate_limiter = 0
    /\ main = "join"
    /\ NoQueueNoCond(BinaryThreads)
    /\ LocksIdle
    /\ TrylockIdle
    /\ SpinIdle

\* for (int i = 0; i < INCREMENTS; i++)
BinaryTest(t) ==
    /\ variant = "binary"
    /\ pc[t] = "test"
    /\ pc' = [pc EXCEPT ![t] = IF i[t] < MaxIncrements THEN "wait"
                               ELSE "done"]
    /\ UNCHANGED <<binaryFrame, variant, binary_sem, counter, reg, i, main>>

BinaryWaitNeverBlocks(t) ==
    /\ variant = "binary"
    /\ pc[t] = "wait"
    /\ binary_sem' = IF binary_sem > 0 THEN binary_sem - 1 ELSE 0
    /\ pc' = [pc EXCEPT ![t] = "read"]
    /\ UNCHANGED <<binaryFrame, variant, counter, reg, i, main>>

\* sem_wait(&binary_sem): blocks while the value is 0, then decrements it.
BinaryWait(t) ==
    /\ variant = "binary"
    /\ pc[t] = "wait"
    /\ binary_sem > 0
    /\ binary_sem' = binary_sem - 1
    /\ pc' = [pc EXCEPT ![t] = "read"]
    /\ UNCHANGED <<binaryFrame, variant, counter, reg, i, main>>

\* counter++, first part: read counter.
BinaryRead(t) ==
    /\ variant = "binary"
    /\ pc[t] = "read"
    /\ reg' = [reg EXCEPT ![t] = counter]
    /\ pc' = [pc EXCEPT ![t] = "write"]
    /\ UNCHANGED <<binaryFrame, variant, binary_sem, counter, i, main>>

\* counter++, second part: add and write back; the loaded value is not used
\* again.
BinaryWrite(t) ==
    /\ variant = "binary"
    /\ pc[t] = "write"
    /\ counter' = reg[t] + 1
    /\ reg' = [reg EXCEPT ![t] = 0]
    /\ pc' = [pc EXCEPT ![t] = "post"]
    /\ UNCHANGED <<binaryFrame, variant, binary_sem, i, main>>

\* sem_post(&binary_sem), then i++.
BinaryPost(t) ==
    /\ variant = "binary"
    /\ pc[t] = "post"
    /\ binary_sem' = binary_sem + 1
    /\ i' = [i EXCEPT ![t] = i[t] + 1]
    /\ pc' = [pc EXCEPT ![t] = "test"]
    /\ UNCHANGED <<binaryFrame, variant, counter, reg, main>>

\* The statements of increment_counter.
BinaryStep(t) ==
    \/ BinaryTest(t)
    \/ BinaryWait(t)
    \/ BinaryRead(t)
    \/ BinaryWrite(t)
    \/ BinaryPost(t)

\* main: pthread_join(threads[i], NULL) for every thread.
BinaryJoin ==
    /\ variant = "binary"
    /\ main = "join"
    /\ \A t \in BinaryThreads : pc[t] = "done"
    /\ main' = "exit"
    /\ UNCHANGED <<binaryFrame, variant, binary_sem, counter, reg, i, pc>>

BinaryNext == (\E t \in BinaryThreads : BinaryStep(t)) \/ BinaryJoin

----------------------------------------------------------------------------
\* 02_counting_semaphore.c (variant "pool") and 04_rate_limiter.c (variant
\* "limiter"): NUM_REQUESTS threads each take one of MAX_CONCURRENT tokens
\* of a counting semaphore, use it and give it back.  The semaphore is
\* resource_pool there and rate_limiter here; NUM_WORKERS and MAX_RESOURCES
\* of 02_counting_semaphore.c have the values of NUM_REQUESTS and
\* MAX_CONCURRENT.

\* ids[i] = i + 1
PoolWorkers == 1..NUM_REQUESTS

\* What the two programs leave alone.
poolFrame == <<bufferVars, mutex, data_ready, condVars, counterVars, lockVars,
               trylockVars, binary_sem, spinVars, i>>

\* The value of the program's semaphore.
Tokens == IF variant = "pool" THEN resource_pool ELSE rate_limiter

\* The program's semaphore gets value v.
SetTokens(v) ==
    /\ resource_pool' = IF variant = "pool" THEN v ELSE resource_pool
    /\ rate_limiter' = IF variant = "pool" THEN rate_limiter ELSE v

\* main has called sem_init with MAX_RESOURCES or MAX_CONCURRENT and is
\* about to create the first thread.
PoolInit ==
    /\ variant \in {"pool", "limiter"}
    /\ pc = [w \in PoolWorkers |-> "unborn"]
    /\ i = [w \in PoolWorkers |-> 0]
    /\ main = "create"
    /\ resource_pool = IF variant = "pool" THEN MAX_CONCURRENT ELSE 0
    /\ rate_limiter = IF variant = "pool" THEN 0 ELSE MAX_CONCURRENT
    /\ binary_sem = 0
    /\ NoQueueNoCond(PoolWorkers)
    /\ CounterIdle
    /\ LocksIdle
    /\ TrylockIdle
    /\ SpinIdle

\* The threads main has not created yet.
Unborn == {w \in PoolWorkers : pc[w] = "unborn"}

\* main: ids[i] = i + 1; pthread_create(...); usleep(...); for the next i.
\* The usleep staggers the starts and orders nothing.
PoolCreate ==
    /\ variant \in {"pool", "limiter"}
    /\ main = "create"
    /\ LET w == CHOOSE x \in Unborn : \A y \in Unborn : x <= y
       IN  /\ pc' = [pc EXCEPT ![w] = "wait"]
           /\ main' = IF w = NUM_REQUESTS THEN "join" ELSE "create"
    /\ UNCHANGED <<poolFrame, variant, resource_pool, rate_limiter>>

PoolWaitNeverBlocks(w) ==
    /\ variant \in {"pool", "limiter"}
    /\ pc[w] = "wait"
    /\ SetTokens(IF Tokens > 0 THEN Tokens - 1 ELSE 0)
    /\ pc' = [pc EXCEPT ![w] = "holding"]
    /\ UNCHANGED <<poolFrame, variant, main>>

\* sem_wait: blocks while the value is 0, then decrements it.  What the
\* thread does with the token (sem_getvalue and printf, time and printf,
\* sleep) changes no state.
PoolWait(w) ==
    /\ variant \in {"pool", "limiter"}
    /\ pc[w] = "wait"
    /\ Tokens > 0
    /\ SetTokens(Tokens - 1)
    /\ pc' = [pc EXCEPT ![w] = "holding"]
    /\ UNCHANGED <<poolFrame, variant, main>>

\* sem_post, and the thread returns.
PoolPost(w) ==
    /\ variant \in {"pool", "limiter"}
    /\ pc[w] = "holding"
    /\ SetTokens(Tokens + 1)
    /\ pc' = [pc EXCEPT ![w] = "done"]
    /\ UNCHANGED <<poolFrame, variant, main>>

\* The statements of worker and of make_request.
PoolStep(w) == PoolWait(w) \/ PoolPost(w)

\* main: pthread_join for every thread.
PoolJoin ==
    /\ variant \in {"pool", "limiter"}
    /\ main = "join"
    /\ \A w \in PoolWorkers : pc[w] = "done"
    /\ main' = "exit"
    /\ UNCHANGED <<poolFrame, variant, resource_pool, rate_limiter, pc>>

PoolNext == PoolCreate \/ (\E w \in PoolWorkers : PoolStep(w)) \/ PoolJoin

\* The three programs.
SemaphoreSpec ==
    (BinaryInit \/ PoolInit) /\ [][BinaryNext \/ PoolNext]_vars

\* main goes on creating and joining, and a thread that can take a step
\* eventually takes one.
SemaphoreFairness ==
    /\ WF_vars(PoolCreate)
    /\ \A w \in PoolWorkers : WF_vars(PoolStep(w))
    /\ WF_vars(PoolJoin)

SemaphoreFairSpec == SemaphoreSpec /\ SemaphoreFairness

----------------------------------------------------------------------------
\* 03_spinlock.c of 05_atomic_operations (variant "spin"): two workers
\* increment shared_counter under a spinlock made of an atomic_flag, 100000
\* times each; MaxIncrements stands for the 100000.

\* int id1 = 1, id2 = 2
SpinThreads == 1..SPIN_THREADS

\* What the program leaves alone.
spinFrame == <<bufferVars, mutex, data_ready, condVars, counter,
               counter_mutex, lockVars, trylockVars, semaphoreVars>>

\* main is about to create t1.
SpinInit ==
    /\ variant = "spin"
    /\ pc = [t \in SpinThreads |-> "unborn"]
    /\ i = [t \in SpinThreads |-> 0]
    /\ reg = [t \in SpinThreads |-> 0]
    /\ spinlock = FALSE
    /\ shared_counter = 0
    /\ main = "create"
    /\ counter = 0
    /\ counter_mutex = "free"
    /\ NoQueueNoCond(SpinThreads)
    /\ LocksIdle
    /\ TrylockIdle
    /\ SemaphoresIdle

\* main: pthread_create(&t1, ...), then pthread_create(&t2, ...).
SpinCreate ==
    /\ variant = "spin"
    /\ main = "create"
    /\ LET t == CHOOSE x \in SpinThreads :
                    pc[x] = "unborn" /\ \A y \in SpinThreads :
                                            pc[y] = "unborn" => x <= y
       IN  /\ pc' = [pc EXCEPT ![t] = "test"]
           /\ main' = IF t = SPIN_THREADS THEN "join" ELSE "create"
    /\ UNCHANGED <<spinFrame, variant, spinVars, reg, i>>

\* for (int i = 0; i < 100000; i++)
SpinTest(t) ==
    /\ variant = "spin"
    /\ pc[t] = "test"
    /\ pc' = [pc EXCEPT ![t] = IF i[t] < MaxIncrements THEN "spin"
                               ELSE "done"]
    /\ UNCHANGED <<spinFrame, variant, spinVars, reg, i, main>>

SpinTestAndSetIgnoresFlag(t) ==
    /\ variant = "spin"
    /\ pc[t] = "spin"
    /\ spinlock' = TRUE
    /\ pc' = [pc EXCEPT ![t] = "read"]
    /\ UNCHANGED <<spinFrame, variant, shared_counter, reg, i, main>>

\* spin_lock: while (atomic_flag_test_and_set(lock)) {}.  One execution of
\* the test-and-set: it sets the flag and returns what the flag was; the
\* loop goes on when it was set and spin_lock returns when it was clear.
SpinTestAndSet(t) ==
    /\ variant = "spin"
    /\ pc[t] = "spin"
    /\ spinlock' = TRUE
    /\ pc' = [pc EXCEPT ![t] = IF spinlock THEN "spin" ELSE "read"]
    /\ UNCHANGED <<spinFrame, variant, shared_counter, reg, i, main>>

\* shared_counter++, first part: read shared_counter.
SpinRead(t) ==
    /\ variant = "spin"
    /\ pc[t] = "read"
    /\ reg' = [reg EXCEPT ![t] = shared_counter]
    /\ pc' = [pc EXCEPT ![t] = "write"]
    /\ UNCHANGED <<spinFrame, variant, spinVars, i, main>>

\* shared_counter++, second part: add and write back.
SpinWrite(t) ==
    /\ variant = "spin"
    /\ pc[t] = "write"
    /\ shared_counter' = reg[t] + 1
    /\ pc' = [pc EXCEPT ![t] = "unlock"]
    /\ UNCHANGED <<spinFrame, variant, spinlock, reg, i, main>>

\* spin_unlock: atomic_flag_clear(lock); then i++.
SpinUnlock(t) ==
    /\ variant = "spin"
    /\ pc[t] = "unlock"
    /\ spinlock' = FALSE
    /\ i' = [i EXCEPT ![t] = i[t] + 1]
    /\ pc' = [pc EXCEPT ![t] = "test"]
    /\ UNCHANGED <<spinFrame, variant, shared_counter, reg, main>>

\* The statements of worker.
SpinStep(t) ==
    \/ SpinTest(t)
    \/ SpinTestAndSet(t)
    \/ SpinRead(t)
    \/ SpinWrite(t)
    \/ SpinUnlock(t)

\* main: pthread_join(t1, NULL); pthread_join(t2, NULL);
SpinJoin ==
    /\ variant = "spin"
    /\ main = "join"
    /\ \A t \in SpinThreads : pc[t] = "done"
    /\ main' = "exit"
    /\ UNCHANGED <<spinFrame, variant, spinVars, reg, i, pc>>

SpinNext == SpinCreate \/ (\E t \in SpinThreads : SpinStep(t)) \/ SpinJoin

SpinSpec == SpinInit /\ [][SpinNext]_vars

----------------------------------------------------------------------------
\* Properties.

AllDone == \A t \in Threads : pc[t] = "done"

\* The items the producers produce in their MaxIterations iterations.
AllItems == {id(p) * 100 + k : p \in Producers, k \in 0..(MaxIterations - 1)}

\* How often item x occurs in a history of writes or reads.
Occurrences(h, x) == Cardinality({k \in DOMAIN h : h[k][2] = x})

\* C1: no lost or duplicated items. In both programs every item read from
\* the buffer was written before and has not been read before; once all four
\* threads have finished, every produced item has been written once and read
\* once (the multiset consumed equals the multiset produced).
C1_NoLostOrDuplicatedItems ==
    /\ \A k \in DOMAIN reads :
          /\ Occurrences(writes, reads[k][2]) >= 1
          /\ Occurrences(reads, reads[k][2]) = 1
    /\ AllDone =>
          /\ \A x \in AllItems :
                Occurrences(writes, x) = 1 /\ Occurrences(reads, x) = 1
          /\ Len(writes) = Cardinality(AllItems)
          /\ Len(reads) = Cardinality(AllItems)

\* C1 witness: the cv program with a one-slot buffer has finished and the
\* first item consumed came from producer 2.
C1_Witness ==
    /\ main = "exit"
    /\ variant = "cv"
    /\ capacity = 1
    /\ Len(reads) = Cardinality(AllItems)
    /\ reads[1][2] = 200

\* C2: global FIFO. In both programs the n-th item read from the buffer is
\* the item stored by the n-th buffer write, for every n.
C2_GlobalFifo ==
    \A n \in DOMAIN reads : n <= Len(writes) /\ reads[n][2] = writes[n][2]

\* C2 witness: the sem program with a two-slot buffer has read every item,
\* the producers' writes interleaved (producer 2 first) and the cursors
\* having wrapped around.
C2_Witness ==
    /\ variant = "sem"
    /\ capacity = 2
    /\ Len(reads) = Cardinality(AllItems)
    /\ writes[1][2] = 200
    /\ writes[2][2] = 100
    /\ reads[3][1] = 0

\* C3: capacity bound. In the cv program 0 <= count <= BUFFER_SIZE; in the
\* sem program the number of items written and not yet read is between 0 and
\* BUFFER_SIZE.
C3_CapacityBound ==
    /\ variant = "cv" => (0 <= count /\ count <= capacity)
    /\ variant = "sem" =>
          (0 <= Len(writes) - Len(reads) /\ Len(writes) - Len(reads) <= capacity)

\* C3 witness: the buffer of the cv program is full and a producer that holds
\* the mutex is about to test the loop condition.
C3_Witness ==
    /\ variant = "cv"
    /\ count = capacity
    /\ \E p \in Producers : pc[p] = "test"

\* C4: deadlock freedom. For every capacity, in both programs, whenever some
\* thread has not finished its loop, some thread can take a step of its code
\* (a spurious wakeup, which may never come, does not count).
C4_DeadlockFree ==
    (\E t \in Threads : pc[t] # "done") => (\E t \in Threads : ENABLED Step(t))

\* C4 witness: with a one-slot buffer both producers of the cv program are
\* blocked on not_full.
C4_Witness ==
    /\ variant = "cv"
    /\ capacity = 1
    /\ \A p \in Producers : pc[p] = "blocked"

\* The positions at which a thread of the cv program is between
\* pthread_mutex_lock and pthread_mutex_unlock and not suspended in
\* pthread_cond_wait.
CvCritical == {"test", "wait", "store", "advance", "count", "load", "signal", "unlock"}

\* The positions whose statement reads or writes buffer, in, out or count.
CvAccess == {"test", "store", "advance", "count", "load"}
SemAccess == {"store", "advance", "load"}

\* The thread of the sem program holds the mutex permit: in its current
\* iteration it has waited on mutex and not yet posted it.
HoldsMutexPermit(t) ==
    Cardinality({k \in DOMAIN ops[t] : ops[t][k] = <<"wait", "mutex">>})
      > Cardinality({k \in DOMAIN ops[t] : ops[t][k] = <<"post", "mutex">>})

\* C5: predicate recheck. In the cv program, spurious wakeups and competing
\* threads notwithstanding, a producer is about to write buffer[in] only when
\* count < BUFFER_SIZE and a consumer is about to read buffer[out] only when
\* count > 0.
C5_PredicateRecheck ==
    variant = "cv" =>
        \A t \in Threads :
            /\ pc[t] = "store" => count < capacity
            /\ pc[t] = "load" => count > 0

\* C5 witness: a producer has returned from its wait (spuriously, or after
\* the other producer took the freed slot) and is about to reacquire the
\* mutex and test the predicate again, while the buffer is full.
C5_Witness ==
    /\ variant = "cv"
    /\ count = capacity
    /\ pc["prod1"] = "relock"
    /\ mutex = "free"

\* C6: exclusive access. In both programs a thread whose next statement
\* reads or writes buffer, in, out or count holds the mutex (the mutex
\* permit), and at most one thread is inside the critical section.
C6_ExclusiveAccess ==
    /\ variant = "cv" =>
          /\ \A t \in Threads : pc[t] \in CvCritical => mutex = t
          /\ Cardinality({t \in Threads : pc[t] \in CvCritical}) <= 1
    /\ variant = "sem" =>
          /\ \A t \in Threads : pc[t] \in SemAccess => HoldsMutexPermit(t)
          /\ Cardinality({t \in Threads : HoldsMutexPermit(t)}) <= 1
          /\ sem_mutex + Cardinality({t \in Threads : HoldsMutexPermit(t)}) = 1

\* C6 witness: one producer is inside the critical section of the cv program
\* while a consumer and the other producer wait for the mutex.
C6_Witness ==
    /\ variant = "cv"
    /\ pc["prod1"] = "store"
    /\ mutex = "prod1"
    /\ pc["cons1"] = "lock"
    /\ pc["prod2"] = "relock"

\* C9, the state part: a thread suspended in pthread_cond_wait (blocked, or
\* woken and waiting for the mutex) does not hold the mutex, and a thread
\* that tests the predicate or touches buffer, in, out or count does.
C9_StatePart ==
    variant = "cv" =>
        \A t \in Threads :
            /\ pc[t] \in {"blocked", "relock"} => mutex # t
            /\ pc[t] \in CvAccess => mutex = t

\* C9, the step part: entering the wait frees the mutex, and the wait is left
\* only by a step that acquires the mutex.
C9_StepPart ==
    \A t \in Threads :
        /\ (pc[t] = "wait" /\ pc'[t] = "blocked") => (mutex = t /\ mutex' = "free")
        /\ (pc[t] = "relock" /\ pc'[t] # "relock") => (mutex = "free" /\ mutex' = t)
        /\ (pc[t] = "blocked" /\ pc'[t] # "blocked") => pc'[t] = "relock"

\* C9: waiting releases the lock. In the cv program a thread suspended in
\* pthread_cond_wait does not hold the mutex, and it holds the mutex again
\* before it re-tests the predicate or touches buffer, in, out or count.
C9_WaitReleasesLock == []C9_StatePart /\ [][C9_StepPart]_vars

\* C9 witness: while a consumer is suspended in pthread_cond_wait, a producer
\* is inside the critical section, writing the buffer.
C9_Witness ==
    /\ variant = "cv"
    /\ pc["cons1"] = "blocked"
    /\ \E p \in Producers : pc[p] = "store" /\ mutex = p

\* The operations of one iteration in the order the sem program is to
\* perform them.
ProducerProtocol ==
    << <<"wait", "empty">>, <<"wait", "mutex">>, <<"write", "buffer">>,
       <<"advance", "in">>, <<"post", "mutex">>, <<"post", "full">> >>

ConsumerProtocol ==
    << <<"wait", "full">>, <<"wait", "mutex">>, <<"read", "buffer">>,
       <<"advance", "out">>, <<"post", "mutex">>, <<"post", "empty">> >>

Protocol(t) == IF t \in Producers THEN ProducerProtocol ELSE ConsumerProtocol

IsPrefix(a, b) == Len(a) <= Len(b) /\ SubSeq(b, 1, Len(a)) = a

\* C10: semaphore protocol order. Before any operation empty = BUFFER_SIZE,
\* full = 0 and mutex = 1; the operations of every iteration of a producer
\* are wait(empty), wait(mutex), write, advance in, post(mutex), post(full)
\* in that order, those of a consumer wait(full), wait(mutex), read, advance
\* out, post(mutex), post(empty); no thread waits on empty or full while it
\* holds the mutex permit.
C10_SemaphoreProtocol ==
    variant = "sem" =>
        /\ (\A t \in Threads : i[t] = 0 /\ ops[t] = <<>>) =>
              (empty = capacity /\ full = 0 /\ sem_mutex = 1)
        /\ \A t \in Threads :
              /\ IsPrefix(ops[t], Protocol(t))
              /\ (i[t] > 0 /\ pc[t] \in {FirstPc("sem", t), "done"}) =>
                    ops[t] = Protocol(t)
              /\ pc[t] \in {"wait_empty", "wait_full"} => ~HoldsMutexPermit(t)

\* C10 witness: a producer that has completed an iteration is blocked on
\* empty (no empty slot) while a consumer, holding the mutex permit, reads
\* the buffer.
C10_Witness ==
    /\ variant = "sem"
    /\ pc["prod1"] = "wait_empty"
    /\ i["prod1"] > 0
    /\ empty = 0
    /\ \E c \in Consumers : pc[c] = "load" /\ HoldsMutexPermit(c)

\* C8, the state part: a producer has signalled not_empty once per completed
\* put and never not_full; a consumer not_full once per completed take and
\* never not_empty.
C8_StatePart ==
    variant = "cv" =>
        \A t \in Threads :
            /\ signals[t][SignalCond(t)] = i[t] + (IF pc[t] = "unlock" THEN 1 ELSE 0)
            /\ signals[t][WaitCond(t)] = 0
            /\ pc[t] = "signal" =>
                  Occurrences(IF t \in Producers THEN writes ELSE reads,
                              item[t]) = 1

\* The threads a step wakes from a condition variable.
WokenByStep == {u \in Threads : pc[u] = "blocked" /\ pc'[u] = "relock"}

\* C8, the step part: the signal is issued while holding the mutex; it wakes
\* at most one thread, one if a thread is waiting on the signalled condition,
\* and only a thread on the opposite side.
C8_StepPart ==
    \A t \in Threads :
        (pc[t] = "signal" /\ pc'[t] # "signal") =>
            /\ mutex = t /\ mutex' = t
            /\ signals'[t][SignalCond(t)] = signals[t][SignalCond(t)] + 1
            /\ Cardinality(WokenByStep) <= 1
            /\ Waiters(SignalCond(t)) # {} => Cardinality(WokenByStep) = 1
            /\ WokenByStep \subseteq Waiters(SignalCond(t))
            /\ t \in Producers => WokenByStep \subseteq Consumers
            /\ t \in Consumers => WokenByStep \subseteq Producers

BlockedOnBuffer(t) ==
    \/ variant = "cv" /\ pc[t] = "blocked"
    \/ variant = "sem" /\ pc[t] = "wait_empty" /\ empty = 0
    \/ variant = "sem" /\ pc[t] = "wait_full" /\ full = 0

\* The thread has just written (producer) or read (consumer) the buffer. A
\* blocked thread gets here next only by the write or read it is blocked for.
Transferred(t) == pc[t] = "advance"

\* C7: blocking put/take make progress. Under fair scheduling, in both
\* programs a producer blocked on a full buffer eventually writes its item, a
\* consumer blocked on an empty buffer eventually reads one, and all four
\* threads finish (main returns from the joins).
C7_BlockedMakeProgress ==
    /\ \A t \in Threads : BlockedOnBuffer(t) ~> Transferred(t)
    /\ <>(AllDone /\ main = "exit")

\* C7 witness: both producers of the sem program are blocked on empty, the
\* buffer being full.
C7_Witness ==
    /\ variant = "sem"
    /\ \A p \in Producers : BlockedOnBuffer(p)
    /\ Len(writes) - Len(reads) = capacity

----------------------------------------------------------------------------
\* C12 (cv): whenever no thread holds the mutex, in = (out + count) mod
\* BUFFER_SIZE, and the count slots from out (inclusive) to in (exclusive),
\* modulo BUFFER_SIZE, hold exactly the items that were put and not yet
\* taken: the writes after the first Len(reads), in order, no others pending.
C12_OccupancyMatchesCursors ==
    (variant = "cv" /\ mutex = "free") =>
        /\ in = (out + count) % capacity
        /\ count = Len(writes) - Len(reads)
        /\ \A n \in 1..Len(reads) : reads[n] = writes[n]
        /\ \A k \in 0..(count - 1) :
              writes[Len(reads) + k + 1] =
                  <<(out + k) % capacity, buffer[(out + k) % capacity]>>

\* The mutex is free while the buffer of two slots is full and its
\* occupied range wraps around: out = in = 1 after three puts and one take.
C12_Witness ==
    /\ variant = "cv"
    /\ mutex = "free"
    /\ capacity = 2
    /\ count = 2
    /\ out = 1
    /\ in = 1
    /\ Len(writes) = 3

----------------------------------------------------------------------------
\* The items read so far that producer p made (id * 100 + i, with i < 100).
ReadsOf(p) == SelectSeq(reads, LAMBDA r : r[2] \div 100 = id(p))

\* C13 (both programs): for each producer p the items id_p * 100 + 0,
\* id_p * 100 + 1, ... are read from the buffer in increasing order of i,
\* whatever the interleaving and whichever consumer reads them: the n-th
\* read of an item of p is the item p made in its n-th iteration.
C13_FifoPerProducer ==
    \A p \in Producers :
        \A n \in 1..Len(ReadsOf(p)) : ReadsOf(p)[n][2] = id(p) * 100 + (n - 1)

\* Every thread is done and the items were read alternating between the
\* two producers, an item of prod2 first.
C13_Witness ==
    /\ AllDone
    /\ Len(reads) = 2 * MaxIterations
    /\ \A n \in 1..(Len(reads) - 1) : reads[n][2] \div 100 # reads[n + 1][2] \div 100
    /\ reads[1][2] \div 100 = id("prod2")

----------------------------------------------------------------------------
\* The producers (consumers) that have written (read) a slot in the current
\* iteration and have not yet executed the advance of in (out).
BeforeAdvance(S) == {t \in S : pc[t] = "advance"}

\* Thread t executes its in = (in + 1) % BUFFER_SIZE (producer) or its
\* out = (out + 1) % BUFFER_SIZE (consumer) in this step.
Advances(t) == pc[t] = "advance" /\ pc'[t] # "advance"

\* in and out are in [0, BUFFER_SIZE), and each is the number of puts
\* (takes) that have advanced it, modulo BUFFER_SIZE: one advance per put
\* and per take.
C20_StatePart ==
    /\ in \in 0..(capacity - 1)
    /\ out \in 0..(capacity - 1)
    /\ in = (Len(writes) - Cardinality(BeforeAdvance(Producers))) % capacity
    /\ out = (Len(reads) - Cardinality(BeforeAdvance(Consumers))) % capacity

\* A producer's advance moves in by one modulo BUFFER_SIZE and leaves out;
\* a consumer's advance moves out by one modulo BUFFER_SIZE and leaves in;
\* no other step changes in or out.
C20_StepPart ==
    /\ \A p \in Producers :
          Advances(p) => in' = (in + 1) % capacity /\ out' = out
    /\ \A c \in Consumers :
          Advances(c) => out' = (out + 1) % capacity /\ in' = in
    /\ in' # in => \E p \in Producers : Advances(p)
    /\ out' # out => \E c \in Consumers : Advances(c)

\* C20 (both programs): in and out are always in [0, BUFFER_SIZE); each put
\* advances in by exactly one modulo BUFFER_SIZE and leaves out unchanged,
\* each take advances out by exactly one modulo BUFFER_SIZE and leaves in
\* unchanged.
C20_CursorRanges == []C20_StatePart /\ [][C20_StepPart]_vars

\* In the sem program with two slots, in has wrapped around to 0 after two
\* puts and out has moved to 1 after one take.
C20_Witness ==
    /\ variant = "sem"
    /\ capacity = 2
    /\ Len(writes) = 2
    /\ Len(reads) = 1
    /\ BeforeAdvance(Threads) = {}
    /\ in = 0
    /\ out = 1

----------------------------------------------------------------------------
\* Thread t is inside the polling loop of 01_busy_wait_bad.c, data_ready not
\* yet set. (Only waiter_thread has such a loop.)
Polling(t) ==
    /\ variant = "busy"
    /\ t = "waiter_thread"
    /\ data_ready = 0
    /\ pc[t] \in {"test", "spin_unlock", "spin_lock"}

\* A blocked thread has no statement it can execute; the polling waiter of
\* 01_busy_wait_bad.c always has one, unless the other thread happens to
\* hold the mutex.
C18_StatePart ==
    /\ \A t \in Threads : BlockedOnBuffer(t) => ~ENABLED Step(t)
    /\ (Polling("waiter_thread") /\ mutex # "producer_thread") => ENABLED WaiterStep

\* This step is a pthread_cond_signal, by another thread, on the condition
\* variable t waits on.
SignalledFor(t) ==
    \E u \in Threads \ {t} :
        pc[u] = "signal" /\ pc'[u] # "signal" /\ SignalCond(u) = WaitCond(t)

\* A cv thread that found its predicate false blocks in pthread_cond_wait
\* (it does not unlock and test again), and a thread blocked on a semaphore
\* at zero does not move: the permit must have been posted before.
C18_Blocks ==
    \A t \in Threads :
        /\ (variant = "cv" /\ pc[t] = "wait" /\ pc'[t] # "wait") =>
               pc'[t] = "blocked" /\ t \in Waiters(WaitCond(t))'
        /\ (variant = "sem" /\ BlockedOnBuffer(t)) => pc'[t] = pc[t]

\* The claim as stated: a thread blocked in pthread_cond_wait leaves it only
\* by a signal on its condition variable.
C18_WokenBySignal ==
    \A t \in Threads :
        (variant = "cv" /\ pc[t] = "blocked" /\ pc'[t] # "blocked") =>
            pc'[t] = "relock" /\ SignalledFor(t)

\* A thread blocked in pthread_cond_wait leaves it only by a signal on its
\* condition variable or by a spurious return of pthread_cond_wait.
C18_WokenBySignalOrSpuriously ==
    \A t \in Threads :
        (variant = "cv" /\ pc[t] = "blocked" /\ pc'[t] # "blocked") =>
            pc'[t] = "relock" /\ (SignalledFor(t) \/ CvSpuriousWakeup(t))

\* C18 as stated (both programs): a producer blocked on a full buffer or a
\* consumer blocked on an empty buffer takes no step at all between entering
\* the wait and being woken by a signal or a posted permit, unlike the
\* polling waiter of 01_busy_wait_bad.c.
C18_NoStepUntilSignalled ==
    []C18_StatePart /\ [][C18_Blocks /\ C18_WokenBySignal]_vars

\* C18, amended: a blocked producer or consumer takes no step at all between
\* entering the wait and being woken by a signal, a posted permit or a
\* spurious return of pthread_cond_wait, unlike the polling waiter of
\* 01_busy_wait_bad.c. After a spurious return the thread locks the mutex,
\* tests the predicate and waits again with no signal in between.
C18_NoBusyWaiting ==
    []C18_StatePart /\ [][C18_Blocks /\ C18_WokenBySignalOrSpuriously]_vars

\* prod1 has left pthread_cond_wait on the full buffer and no consumer has
\* ever signalled not_full: it was woken spuriously and is about to lock the
\* mutex and test count again.
C18_Witness ==
    /\ variant = "cv"
    /\ pc["prod1"] = "relock"
    /\ BufferFull
    /\ \A c \in Consumers : signals[c]["not_full"] = 0

----------------------------------------------------------------------------
\* The items written so far that producer p made.
WritesOf(p) == SelectSeq(writes, LAMBDA w : w[2] \div 100 = id(p))

\* The writes and reads so far are those of a queue of capacity slots: never
\* more than capacity items written and not read, the k-th write into slot
\* (k - 1) mod capacity, each producer's items in the order it makes them,
\* the k-th read the slot and item of the k-th write. So the sequence of
\* writes and reads (slot and item) of a run is fixed by its schedule. In the
\* cv program count is the number of items written and not read whenever the
\* mutex is free.
C11_StatePart ==
    /\ Len(writes) - Len(reads) \in 0..capacity
    /\ \A k \in DOMAIN writes : writes[k][1] = (k - 1) % capacity
    /\ \A k \in DOMAIN reads : reads[k] = writes[k]
    /\ \A p \in Producers :
          \A n \in 1..Len(WritesOf(p)) : WritesOf(p)[n][2] = id(p) * 100 + (n - 1)
    /\ Len(WritesOf("prod1")) + Len(WritesOf("prod2")) = Len(writes)
    /\ (variant = "cv" /\ mutex = "free") => count = Len(writes) - Len(reads)

\* In a run held to a schedule, each write and each read is the next event
\* of the schedule.
C11_StepPart ==
    script # <<>> =>
        /\ \A p \in Producers :
              (pc[p] = "store" /\ pc'[p] # "store") => Due(p) /\ Events' = Events + 1
        /\ \A c \in Consumers :
              (pc[c] = "load" /\ pc'[c] # "load") => Due(c) /\ Events' = Events + 1
        /\ Events' # Events =>
              \E t \in Threads : pc[t] \in {"store", "load"} /\ pc'[t] # pc[t]

\* The run has made every event of its schedule.
ScheduleRealised == script # <<>> => (Events = Len(script) /\ AllDone)

\* C11: for the same capacity, producers, consumers and item counts, the
\* sequences of buffer writes and reads (slot index and item value) the sem
\* program can produce are those the cv program can produce. Both sets are
\* the sequences of a queue of that capacity: every run of either program
\* makes one (the state part, checked on the runs held to no schedule too),
\* and either program, held to any schedule of such a queue, makes each event
\* in the schedule's order to the end.
C11_SameTraces ==
    /\ []C11_StatePart
    /\ [][C11_StepPart]_vars
    /\ <>ScheduleRealised

\* The cv program has been through a schedule that fills both slots of the
\* buffer twice and empties it in the middle.
C11_Witness ==
    /\ variant = "cv"
    /\ capacity = 2
    /\ script = <<"prod2", "prod1", "read", "prod1", "read", "read", "prod2", "read">>
    /\ Events = Len(script)
    /\ AllDone
    /\ main = "exit"

----------------------------------------------------------------------------
\* The threads of S that hold a slot permit: a producer from its
\* sem_wait(&empty) to its sem_post(&full), a consumer from its
\* sem_wait(&full) to its sem_post(&empty).
HoldsSlotPermit(S) == {t \in S : pc[t] \notin {Body(t)[1], "done"}}

\* C21 (sem): in every reachable state value(empty) + value(full) + the
\* number of producers between wait(empty) and post(full) + the number of
\* consumers between wait(full) and post(empty) is BUFFER_SIZE, value(mutex)
\* is 0 or 1, and a producer about to write a slot finds every item written
\* to that slot before already read.
C21_PermitConservation ==
    variant = "sem" =>
        /\ empty + full + Cardinality(HoldsSlotPermit(Producers))
               + Cardinality(HoldsSlotPermit(Consumers)) = capacity
        /\ empty >= 0
        /\ full >= 0
        /\ sem_mutex \in {0, 1}
        /\ \A p \in Producers :
              pc[p] = "store" =>
                  \A k \in DOMAIN writes :
                      writes[k][1] = in => k <= Len(reads) /\ reads[k] = writes[k]

\* With a single slot, prod2 holds the empty permit and is about to write
\* slot 0 again, after prod1's item in it has been read.
C21_Witness ==
    /\ variant = "sem"
    /\ capacity = 1
    /\ pc["prod2"] = "store"
    /\ empty = 0
    /\ full = 0
    /\ Len(writes) = 1
    /\ Len(reads) = 1
    /\ writes[1][2] \div 100 = id("prod1")

----------------------------------------------------------------------------
\* C22 (both programs): when main has joined all four threads, the queue is
\* empty and consistent. In the cv program count = 0 and in = out, after
\* 2 x NUM_ITEMS/2 puts and as many takes (with the mutex free and no thread
\* on a condition variable); in the sem program value(empty) = BUFFER_SIZE,
\* value(full) = 0, value(mutex) = 1 and in = out.
C22_FinalCountsReconcile ==
    main = "exit" =>
        /\ Len(writes) = 2 * MaxIterations
        /\ Len(reads) = 2 * MaxIterations
        /\ in = out
        /\ in = (2 * MaxIterations) % capacity
        /\ variant = "cv" =>
              count = 0 /\ mutex = "free" /\ not_empty = {} /\ not_full = {}
        /\ variant = "sem" =>
              empty = capacity /\ full = 0 /\ sem_mutex = 1

\* main has joined the threads of the sem program built with BUFFER_SIZE 5;
\* the cursors are equal and not at slot 0.
C22_Witness ==
    /\ main = "exit"
    /\ variant = "sem"
    /\ capacity = BUFFER_SIZE
    /\ in = out
    /\ in # 0

\* C23: waiter_correct is at its processing step only in states where
\* ready = 1, and waiter_thread of 02_condvar_good.c is past its loop only
\* in states where data_ready = 1, however many times pthread_cond_wait has
\* returned spuriously.
C23_ProcessesOnlyWhenReady ==
    /\ variant = "spurious" /\ Waiter = "waiter_correct" =>
           (pc["waiter_correct"] = "process" => ready = 1)
    /\ variant = "good" =>
           (pc["waiter_thread"] \in {"unlock", "process"} => data_ready = 1)

\* waiter_correct processes after MaxWakeups spurious returns.
C23_Witness ==
    /\ variant = "spurious"
    /\ Waiter = "waiter_correct"
    /\ pc["waiter_correct"] = "process"
    /\ wakeups = MaxWakeups

\* C24: waiter_wrong goes from pthread_cond_wait straight to its
\* processing step, whatever ready is; so it can be processing while
\* ready = 0, as C24_Witness shows.
C24_ProceedsWithoutRecheck ==
    [][variant = "spurious" /\ Waiter = "waiter_wrong"
           /\ pc["waiter_wrong"] = "relock" /\ pc'["waiter_wrong"] # "relock"
       => pc'["waiter_wrong"] = "process" /\ ready' = ready]_vars

\* waiter_wrong is processing, ready is still 0 and main has not yet set
\* it: pthread_cond_wait returned spuriously.
C24_Witness ==
    /\ variant = "spurious"
    /\ Waiter = "waiter_wrong"
    /\ pc["waiter_wrong"] = "process"
    /\ ready = 0
    /\ wakeups = 1
    /\ pc["main"] \in {"sleep", "lock", "set"}

\* C25: under a fair scheduler every run of 02_condvar_good.c brings
\* waiter_thread out of its loop and to its end, also when producer_thread
\* has set data_ready and signalled before the waiter locked the mutex.
C25_NoLostWakeup ==
    (variant = "good") ~> (variant = "good" /\ pc["waiter_thread"] = "done")

\* producer_thread has set data_ready, signalled and returned while
\* waiter_thread has not yet locked the mutex: nobody was waiting for the
\* signal.
C25_Witness ==
    /\ variant = "good"
    /\ pc["producer_thread"] = "done"
    /\ pc["waiter_thread"] = "lock"
    /\ data_ready = 1
    /\ cond = {}
    /\ wakeups = 0

\* The threads between pthread_mutex_lock(&counter_mutex) and
\* pthread_mutex_unlock(&counter_mutex).
InCriticalSection == {t \in CounterThreads : pc[t] \in {"read", "write", "unlock"}}

\* C26: in 02_mutex_solution.c, once every thread has finished, counter
\* equals NUM_THREADS * INCREMENTS, and at no time is more than one thread
\* between the lock and the unlock of counter_mutex.
C26_NoLostIncrement ==
    variant = "solution" =>
        /\ (\A t \in CounterThreads : pc[t] = "done") =>
               counter = NUM_THREADS * MaxIncrements
        /\ Cardinality(InCriticalSection) <= 1
        /\ counter_mutex = "free" <=> InCriticalSection = {}

\* main has joined the threads and reads the full count.
C26_Witness ==
    /\ variant = "solution"
    /\ main = "exit"
    /\ counter = NUM_THREADS * MaxIncrements
    /\ counter_mutex = "free"

\* C27: in 01_race_condition.c counter never exceeds NUM_THREADS *
\* INCREMENTS, so the final counter does not; C27_Witness is a run that
\* ends with less.
C27_NeverMoreThanExpected ==
    variant = "race" => counter <= NUM_THREADS * MaxIncrements

\* main has joined the threads and counter is short of NUM_THREADS *
\* INCREMENTS: an update was lost.
C27_Witness ==
    /\ variant = "race"
    /\ main = "exit"
    /\ counter < NUM_THREADS * MaxIncrements

\* C28: 03_deadlock.c hangs in every execution: neither thread ever holds
\* its second lock, and main never returns from pthread_join.
C28_AlwaysHangs ==
    variant = "deadlock" =>
        /\ \A t \in DeadlockThreads : Owner(SecondLock(t)) # t
        /\ \A t \in DeadlockThreads : pc[t] # "done"
        /\ main # "exit"

\* The hang the program is written to show: each thread holds its first
\* lock and waits for the other's, and no step is possible.
C28_Witness ==
    /\ variant = "deadlock"
    /\ \A t \in DeadlockThreads :
           pc[t] = "lock_second" /\ Owner(FirstLock(t)) = t
    /\ main = "join"
    /\ ~ ENABLED DeadlockNext

\* Worker w takes a step.
Moves(w) == pc'[w] # pc[w] \/ i'[w] # i[w]

\* C29, in states: a worker that has not finished can always take a step
\* (none waits for the lock), and a worker that has finished has made
\* exactly five attempts.
C29_StatePart ==
    variant = "trylock" =>
        \A w \in Workers :
            /\ pc[w] # "done" => ENABLED WorkerStep(w)
            /\ pc[w] = "done" => attempts[w] = ATTEMPTS /\ i[w] = ATTEMPTS
            /\ attempts[w] <= ATTEMPTS

\* C29, in steps: a worker whose pthread_mutex_trylock finds the lock held
\* leaves the lock, shared_resource and its successes as they are and goes
\* to its next attempt, or returns after its last.
C29_StepPart ==
    variant = "trylock" =>
        \A w \in Workers :
            pc[w] = "trylock" /\ resource_lock = "locked" /\ Moves(w) =>
                /\ resource_lock' = resource_lock
                /\ shared_resource' = shared_resource
                /\ successes' = successes
                /\ i'[w] = i[w] + 1
                /\ pc'[w] = IF i'[w] < ATTEMPTS THEN "trylock" ELSE "done"

\* C29: pthread_mutex_trylock never blocks a worker of 04_trylock.c: on a
\* held lock it changes nothing and the worker goes on; no worker ever
\* waits for the lock; and every worker finishes, after exactly five
\* attempts.
C29_TrylockNeverBlocks ==
    /\ []C29_StatePart
    /\ [][C29_StepPart]_vars
    /\ (variant = "trylock") ~> (\A w \in Workers : pc[w] = "done")

\* Worker 1 has finished without ever getting the lock: all five attempts
\* found it held.
C29_Witness ==
    /\ variant = "trylock"
    /\ pc[1] = "done"
    /\ attempts[1] = ATTEMPTS
    /\ successes[1] = 0

\* The sum of f over the workers in S.
RECURSIVE SumOver(_, _)
SumOver(f, S) ==
    IF S = {} THEN 0
    ELSE LET w == CHOOSE x \in S : TRUE
         IN  f[w] + SumOver(f, S \ {w})

\* C30: when the workers of 04_trylock.c have finished, shared_resource
\* equals the sum of their successes, and the sum is at least 1 and at most
\* 15.
C30_ResourceEqualsSuccesses ==
    variant = "trylock" /\ (\A w \in Workers : pc[w] = "done") =>
        /\ shared_resource = SumOver(successes, Workers)
        /\ SumOver(successes, Workers) >= 1
        /\ SumOver(successes, Workers) <= NUM_WORKERS * ATTEMPTS

\* main has joined the workers; some attempts found the lock held and some
\* got it.
C30_Witness ==
    /\ variant = "trylock"
    /\ main = "exit"
    /\ shared_resource = SumOver(successes, Workers)
    /\ shared_resource < NUM_WORKERS * ATTEMPTS
    /\ \A w \in Workers : successes[w] >= 1

\* The threads between sem_wait(&binary_sem) and sem_post(&binary_sem).
BinaryInCriticalSection ==
    {t \in BinaryThreads : pc[t] \in {"read", "write", "post"}}

\* C31: in 01_binary_semaphore.c binary_sem is 0 or 1 in every reachable
\* state, at most one thread is between sem_wait and sem_post (and
\* binary_sem is 0 exactly then), and once every thread has finished
\* counter equals NUM_THREADS * INCREMENTS.
C31_BinarySemaphoreIsMutex ==
    variant = "binary" =>
        /\ binary_sem \in {0, 1}
        /\ Cardinality(BinaryInCriticalSection) <= 1
        /\ binary_sem = 0 <=> BinaryInCriticalSection # {}
        /\ (\A t \in BinaryThreads : pc[t] = "done") =>
               counter = BINARY_NUM_THREADS * MaxIncrements

\* main has joined the three threads and reads the full count.
C31_Witness ==
    /\ variant = "binary"
    /\ main = "exit"
    /\ counter = BINARY_NUM_THREADS * MaxIncrements
    /\ binary_sem = 1

\* The threads between sem_wait and sem_post.
Holding == {w \in PoolWorkers : pc[w] = "holding"}

\* C32, in states: at most MAX_CONCURRENT threads hold a token, the
\* semaphore's value is between 0 and MAX_CONCURRENT, and the value and the
\* tokens held add up to MAX_CONCURRENT.
C32_StatePart ==
    variant \in {"pool", "limiter"} =>
        /\ Cardinality(Holding) <= MAX_CONCURRENT
        /\ Tokens \in 0..MAX_CONCURRENT
        /\ Tokens + Cardinality(Holding) = MAX_CONCURRENT

\* C32, in steps: a thread comes to hold a token only by its sem_wait and
\* finishes only by its sem_post.
C32_StepPart ==
    variant \in {"pool", "limiter"} =>
        \A w \in PoolWorkers :
            /\ pc'[w] = "holding" /\ pc[w] # "holding" =>
                   pc[w] = "wait" /\ Tokens > 0
            /\ pc'[w] = "done" /\ pc[w] # "done" => pc[w] = "holding"

\* C32: in 02_counting_semaphore.c and 04_rate_limiter.c at most 3 threads
\* are between sem_wait and sem_post, the semaphore's value stays in 0..3,
\* and under fair scheduling all 10 threads acquire, release and finish.
C32_AtMostThreeAndAllFinish ==
    /\ []C32_StatePart
    /\ [][C32_StepPart]_vars
    /\ (variant \in {"pool", "limiter"}) ~>
           (/\ variant \in {"pool", "limiter"}
            /\ main = "exit"
            /\ \A w \in PoolWorkers : pc[w] = "done")

\* Three workers of 02_counting_semaphore.c hold the three resources and
\* the other seven wait for one.
C32_Witness ==
    /\ variant = "pool"
    /\ Cardinality(Holding) = MAX_CONCURRENT
    /\ resource_pool = 0
    /\ \A w \in PoolWorkers \ Holding : pc[w] = "wait"

\* The workers between spin_lock and spin_unlock.
SpinInCriticalSection ==
    {t \in SpinThreads : pc[t] \in {"read", "write", "unlock"}}

\* C33, in states: at most one worker is between spin_lock and
\* spin_unlock, the flag is set whenever one is, and once both workers have
\* finished shared_counter is 2 times the number of increments.
C33_StatePart ==
    variant = "spin" =>
        /\ Cardinality(SpinInCriticalSection) <= 1
        /\ SpinInCriticalSection # {} => spinlock
        /\ (\A t \in SpinThreads : pc[t] = "done") =>
               shared_counter = SPIN_THREADS * MaxIncrements

\* C33, in steps: spin_lock returns only to a worker whose test-and-set
\* found the flag clear, and a worker that found it set stays in spin_lock.
C33_StepPart ==
    variant = "spin" =>
        \A t \in SpinThreads :
            /\ pc[t] = "spin" /\ pc'[t] = "read" => ~spinlock /\ spinlock'
            /\ pc[t] = "spin" /\ spinlock => pc'[t] = "spin"

\* C33: the spinlock of 03_spinlock.c excludes: at most one worker is
\* between spin_lock and spin_unlock, spin_lock returns only after a
\* test-and-set that found the flag clear, and the final shared_counter is
\* 2 times the number of increments (200000 in the program).
C33_SpinlockExcludes == []C33_StatePart /\ [][C33_StepPart]_vars

\* One worker is spinning in spin_lock while the other is about to write
\* the last increment but one.
C33_Witness ==
    /\ variant = "spin"
    /\ pc[1] = "spin"
    /\ pc[2] = "write"
    /\ spinlock
    /\ reg[2] = SPIN_THREADS * MaxIncrements - 2

============================================================================
